---- MODULE Spec2Model ----
(***************************************************************************)
(* Lead scoring engine and lead store of the headless CMS backend.         *)
(*                                                                         *)
(* The JSON-file database is modelled per collection: products, wishlists, *)
(* leads, leadNotes and customers.  Records carry the fields the handlers  *)
(* and the scorer read; ids are uuid strings, so every collection is a set *)
(* of records with pairwise distinct ids.  Display-only fields (name,      *)
(* referrer, ipAddress, userAgent, createdAt, updatedAt) are not carried.  *)
(*                                                                         *)
(* An optional string is either Undefined or a string, which may be empty; *)
(* JavaScript truthiness of such a value is Truthy.                        *)
(***************************************************************************)
EXTENDS Integers, Sequences, FiniteSets, TLC

VARIABLES products, wishlists, leads, leadNotes, customers,
          pendingRegistrations, nextId, call,
          inFlight, adminUsers, catalog, response

vars == <<products, wishlists, leads, leadNotes, customers,
          pendingRegistrations, nextId, call,
          inFlight, adminUsers, catalog, response>>

store == <<products, wishlists, leads, leadNotes, customers,
           pendingRegistrations, nextId, inFlight, adminUsers, catalog,
           response>>

-----------------------------------------------------------------------------
(* Bounds of the model *)

MaxItems == 5

MaxLeads == 2

MaxWishlists == 1

MaxStoreItems == 3

MaxProducts == 1

MaxNotes == 1

MaxRegistrations == 1

MaxRaceLeads == 2

MaxUsers == 2

MaxSlugged == 3

CategoryMargin == 3

MaxReferenced == 4

MaxConcurrentRegistrations == 2

MaxUploads == 2

MaxFiles == 2

-----------------------------------------------------------------------------
(* JavaScript values *)

Undefined == "<undefined>"

UndefinedObject == [undefined |-> TRUE]

Truthy(s) == s # Undefined /\ s # ""

Or(a, b) == IF Truthy(a) THEN a ELSE b

Min(a, b) == IF a < b THEN a ELSE b

RECURSIVE SumSeq(_)
SumSeq(s) == IF s = <<>> THEN 0 ELSE Head(s) + SumSeq(Tail(s))

RECURSIVE SumSet(_, _)
SumSet(f, S) ==
  IF S = {} THEN 0
  ELSE LET k == CHOOSE x \in S : TRUE IN f[k] + SumSet(f, S \ {k})

-----------------------------------------------------------------------------
(* src/services/leadScoring.ts: calculateLeadScore, term by term *)

\* products.find(p => p.id === item.productId)?.price || 0
PriceOf(productId) ==
  IF \E p \in products : p.id = productId
  THEN (CHOOSE p \in products : p.id = productId).price
  ELSE 0

\* wishlist.items.reduce((total, item) => total + (product?.price || 0), 0)
wishlistTotal(wishlist) ==
  SumSeq([i \in 1..Len(wishlist.items) |-> PriceOf(wishlist.items[i].productId)])

\* wishlist && wishlist.items.length > 0
HasItems(wishlist) ==
  wishlist # UndefinedObject /\ Len(wishlist.items) > 0

ItemCountTerm_cap50(wishlist) ==
  IF HasItems(wishlist) THEN Min(Len(wishlist.items) * 10, 50) ELSE 0

ItemCountTerm(wishlist) ==
  IF HasItems(wishlist) THEN Min(Len(wishlist.items) * 10, 40) ELSE 0

ValueTier_strict500(total) ==
  IF total >= 10000 THEN 30
  ELSE IF total >= 5000 THEN 25
  ELSE IF total >= 2000 THEN 20
  ELSE IF total >= 1000 THEN 15
  ELSE IF total > 500 THEN 10
  ELSE IF total > 0 THEN 5
  ELSE 0

ValueTier(total) ==
  IF total >= 10000 THEN 30
  ELSE IF total >= 5000 THEN 25
  ELSE IF total >= 2000 THEN 20
  ELSE IF total >= 1000 THEN 15
  ELSE IF total >= 500 THEN 10
  ELSE IF total > 0 THEN 5
  ELSE 0

ValueTerm(wishlist) ==
  IF HasItems(wishlist) THEN ValueTier(wishlistTotal(wishlist)) ELSE 0

PhoneTerm(lead) == IF Truthy(lead.phone) THEN 10 ELSE 0

MessageTerm_atLeast20(lead) ==
  IF Truthy(lead.message) /\ Len(lead.message) >= 20 THEN 10 ELSE 0

MessageTerm(lead) ==
  IF Truthy(lead.message) /\ Len(lead.message) > 20 THEN 10 ELSE 0

SourceTerm(lead) == IF lead.source = "WISHLIST" THEN 5 ELSE 0

UtmTerm(lead) ==
  IF Truthy(lead.utmSource) \/ Truthy(lead.utmCampaign) THEN 5 ELSE 0

resolvedCustomerId_leadFirst(lead, customerId) == Or(lead.customerId, customerId)

\* const resolvedCustomerId = customerId || lead.customerId
resolvedCustomerId(lead, customerId) == Or(customerId, lead.customerId)

AccountTerm(lead, customerId) ==
  IF Truthy(resolvedCustomerId(lead, customerId)) THEN 8 ELSE 0

\* l.id !== lead.id && ((resolved && l.customerId === resolved) || l.email === lead.email)
IsSibling(l, lead, resolved) ==
  /\ l.id # lead.id
  /\ \/ Truthy(resolved) /\ l.customerId = resolved
     \/ l.email = lead.email

siblingLeads_countsSelf(lead, resolved) ==
  {l \in leads : \/ Truthy(resolved) /\ l.customerId = resolved
                 \/ l.email = lead.email}

siblingLeads(lead, resolved) == {l \in leads : IsSibling(l, lead, resolved)}

RepeatTerm(lead, customerId) ==
  LET resolved == resolvedCustomerId(lead, customerId) IN
  IF Truthy(resolved) \/ Truthy(lead.email)
  THEN IF Cardinality(siblingLeads(lead, resolved)) > 0
       THEN Min(Cardinality(siblingLeads(lead, resolved)) * 3, 7)
       ELSE 0
  ELSE 0

ConversionTerm_perSibling(lead, customerId) ==
  LET resolved == resolvedCustomerId(lead, customerId) IN
  IF Truthy(resolved) \/ Truthy(lead.email)
  THEN 10 * Cardinality({l \in leads :
                          l.status = "CONVERTED" /\ IsSibling(l, lead, resolved)})
  ELSE 0

ConversionTerm(lead, customerId) ==
  LET resolved == resolvedCustomerId(lead, customerId) IN
  IF Truthy(resolved) \/ Truthy(lead.email)
  THEN IF \E l \in leads : l.status = "CONVERTED" /\ IsSibling(l, lead, resolved)
       THEN 10
       ELSE 0
  ELSE 0

\* the running total before the final Math.min(score, 100)
RawScore(lead, wishlist, customerId) ==
  ItemCountTerm(wishlist) + ValueTerm(wishlist) + PhoneTerm(lead)
  + MessageTerm(lead) + SourceTerm(lead) + UtmTerm(lead)
  + AccountTerm(lead, customerId) + RepeatTerm(lead, customerId)
  + ConversionTerm(lead, customerId)

calculateLeadScore_noClamp(lead, wishlist, customerId) ==
  RawScore(lead, wishlist, customerId)

calculateLeadScore(lead, wishlist, customerId) ==
  Min(RawScore(lead, wishlist, customerId), 100)

getLeadCategory_above61(score) ==
  IF score > 61 THEN "Hot Lead"
  ELSE IF score >= 31 THEN "Warm Lead"
  ELSE "Cold Lead"

getLeadCategory(score) ==
  IF score >= 61 THEN "Hot Lead"
  ELSE IF score >= 31 THEN "Warm Lead"
  ELSE "Cold Lead"

-----------------------------------------------------------------------------
(* src/services/leadScoring.ts: getScoreBreakdown *)

EmptyBreakdown == [k \in {} |-> 0]

\* breakdown[k] = v
Put(breakdown, k, v) ==
  [x \in DOMAIN breakdown \cup {k} |-> IF x = k THEN v ELSE breakdown[x]]

BreakdownWishlist_zeroTier(b, wishlist) ==
  IF HasItems(wishlist)
  THEN LET b1 == Put(b, "Wishlist Items", Min(Len(wishlist.items) * 10, 40))
           total == wishlistTotal(wishlist)
       IN IF total >= 10000 THEN Put(b1, "High Value Wishlist", 30)
          ELSE IF total >= 5000 THEN Put(b1, "High Value Wishlist", 25)
          ELSE IF total >= 2000 THEN Put(b1, "Medium Value Wishlist", 20)
          ELSE IF total >= 1000 THEN Put(b1, "Medium Value Wishlist", 15)
          ELSE IF total >= 500 THEN Put(b1, "Low Value Wishlist", 10)
          ELSE IF total > 0 THEN Put(b1, "Low Value Wishlist", 5)
          ELSE Put(b1, "Low Value Wishlist", 0)
  ELSE b

BreakdownWishlist(b, wishlist) ==
  IF HasItems(wishlist)
  THEN LET b1 == Put(b, "Wishlist Items", Min(Len(wishlist.items) * 10, 40))
           total == wishlistTotal(wishlist)
       IN IF total >= 10000 THEN Put(b1, "High Value Wishlist", 30)
          ELSE IF total >= 5000 THEN Put(b1, "High Value Wishlist", 25)
          ELSE IF total >= 2000 THEN Put(b1, "Medium Value Wishlist", 20)
          ELSE IF total >= 1000 THEN Put(b1, "Medium Value Wishlist", 15)
          ELSE IF total >= 500 THEN Put(b1, "Low Value Wishlist", 10)
          ELSE IF total > 0 THEN Put(b1, "Low Value Wishlist", 5)
          ELSE b1
  ELSE b

BreakdownContact_anyUtm(b, lead) ==
  LET b1 == IF Truthy(lead.phone) THEN Put(b, "Phone Provided", 10) ELSE b
      b2 == IF Truthy(lead.message) /\ Len(lead.message) > 20
            THEN Put(b1, "Detailed Message", 10) ELSE b1
      b3 == IF lead.source = "WISHLIST"
            THEN Put(b2, "Wishlist Submission", 5) ELSE b2
  IN IF Truthy(lead.utmSource) \/ Truthy(lead.utmMedium)
        \/ Truthy(lead.utmCampaign)
     THEN Put(b3, "Tracked Campaign", 5) ELSE b3

BreakdownContact(b, lead) ==
  LET b1 == IF Truthy(lead.phone) THEN Put(b, "Phone Provided", 10) ELSE b
      b2 == IF Truthy(lead.message) /\ Len(lead.message) > 20
            THEN Put(b1, "Detailed Message", 10) ELSE b1
      b3 == IF lead.source = "WISHLIST"
            THEN Put(b2, "Wishlist Submission", 5) ELSE b2
  IN IF Truthy(lead.utmSource) \/ Truthy(lead.utmCampaign)
     THEN Put(b3, "Tracked Campaign", 5) ELSE b3

BreakdownCustomer(b, lead) ==
  LET resolved == lead.customerId
      b1 == IF Truthy(resolved) THEN Put(b, "Customer Account", 8) ELSE b
  IN IF Truthy(resolved) \/ Truthy(lead.email)
     THEN LET siblingCount == Cardinality({l \in leads : IsSibling(l, lead, resolved)})
              b2 == IF siblingCount > 0
                    THEN Put(b1, "Repeat Customer", Min(siblingCount * 3, 7))
                    ELSE b1
              hasConverted == \E l \in leads :
                                l.status = "CONVERTED" /\ IsSibling(l, lead, resolved)
          IN IF hasConverted THEN Put(b2, "Previous Conversion", 10) ELSE b2
     ELSE b1

getScoreBreakdown_account5(lead, wishlist) ==
  LET b == BreakdownCustomer(BreakdownContact(
             BreakdownWishlist(EmptyBreakdown, wishlist), lead), lead)
  IN [k \in DOMAIN b |-> IF k = "Customer Account" THEN 5 ELSE b[k]]

getScoreBreakdown(lead, wishlist) ==
  BreakdownCustomer(BreakdownContact(
    BreakdownWishlist(EmptyBreakdown, wishlist), lead), lead)

BreakdownSum(b) == SumSet(b, DOMAIN b)

-----------------------------------------------------------------------------
(* Records of the store (src/types/index.ts) *)

Lead(id, email, phone, message, source, status, score, wishlistId, customerId, utmSource, utmMedium, utmCampaign) ==
  [id |-> id, email |-> email, phone |-> phone, message |-> message,
   source |-> source, status |-> status, score |-> score,
   wishlistId |-> wishlistId, customerId |-> customerId,
   utmSource |-> utmSource, utmMedium |-> utmMedium,
   utmCampaign |-> utmCampaign]

WishlistItem(productId) == [productId |-> productId]

Wishlist(id, email, customerId, productIds) ==
  [id |-> id, email |-> email, customerId |-> customerId,
   items |-> [i \in 1..Len(productIds) |-> WishlistItem(productIds[i])]]

Product(id, price) == [id |-> id, price |-> price]

LeadStatus == {"NEW", "CONTACTED", "SCHEDULED", "CONVERTED", "LOST"}

AdminRole == {"SUPER_ADMIN", "ADMIN", "STAFF"}

AdminUser(id, email, role) == [id |-> id, email |-> email, role |-> role]

\* the admin user the database initializer creates
DefaultAdmin == AdminUser("U0", "admin@jewelsandtime.com", "SUPER_ADMIN")

\* the collections whose records carry a slug
SluggedCollections == {"brands", "tags", "categories", "products"}

EmptyCatalog == [c \in SluggedCollections |-> {}]

NoResponse == [op |-> "none"]

FirstIds ==
  [product |-> 1, wishlist |-> 1, lead |-> 1, note |-> 1, customer |-> 1,
   request |-> 1, user |-> 1, slugged |-> 1]

-----------------------------------------------------------------------------
(* src/utils/database.ts: the generic operations on one collection *)

\* { ...items[index], ...updates }
Merge(item, updates) ==
  [k \in DOMAIN item \cup DOMAIN updates |->
     IF k \in DOMAIN updates THEN updates[k] ELSE item[k]]

dbGetById(collection, id) ==
  IF \E x \in collection : x.id = id
  THEN CHOOSE x \in collection : x.id = id
  ELSE UndefinedObject

dbCreate(collection, item) == collection \cup {item}

dbUpdate(collection, id, updates) ==
  {IF x.id = id THEN Merge(x, updates) ELSE x : x \in collection}

dbDelete(collection, id) == {x \in collection : x.id # id}

\* uuidv4(): an id no record has had before
Uuid(prefix, n) == prefix \o ToString(n)

-----------------------------------------------------------------------------
(* Inputs of the scoring functions *)

Msg20 == "12345678901234567890"

Msg21 == "123456789012345678901"

Msg25 == "1234567890123456789012345"

PhoneArgs == {Undefined, "", "+1-876-5550100"}

MessageArgs == {Undefined, Msg20, Msg21, Msg25}

SourceArgs == {"WEBSITE", "WISHLIST"}

\* <<utmSource, utmMedium, utmCampaign>>
UtmArgs ==
  { <<Undefined, Undefined, Undefined>>, <<"google", Undefined, Undefined>>,
    <<Undefined, Undefined, "sale">>, <<Undefined, "cpc", Undefined>>,
    <<"", "cpc", "sale">>, <<"google", "cpc", "sale">> }

\* "p9" is the id of no product
ProductRefs == {"p1", "p2", "p9"}

ProductRepos ==
  { {},
    {Product("p1", 499), Product("p2", 1)},
    {Product("p1", 1999), Product("p2", 1)},
    {Product("p1", 4999), Product("p2", 1)},
    {Product("p1", 10000), Product("p2", 400)} }

StoredLead(id, email, customerId, status) ==
  Lead(id, email, Undefined, Undefined, "WEBSITE", status, 0, Undefined,
       customerId, Undefined, Undefined, Undefined)

\* "L1" is the id of the lead that is scored
LeadRepos ==
  LET s1 == StoredLead("L1", "a@x.io", Undefined, "CONVERTED")
      s2 == StoredLead("L2", "a@x.io", Undefined, "NEW")
      s3 == StoredLead("L3", "b@x.io", "c1", "CONVERTED")
      s4 == StoredLead("L4", "b@x.io", "c2", "NEW")
      s5 == StoredLead("L5", "b@x.io", "c1", "NEW")
      s6 == StoredLead("L6", "a@x.io", "c1", "CONVERTED")
  IN { {}, {s1}, {s2}, {s3, s5}, {s2, s3, s4}, {s2, s3, s5},
       {s2, s3, s6}, {s1, s2, s3, s4, s5} }

LeadArgs ==
  { Lead("L1", "a@x.io", phone, message, source, "NEW", 0, Undefined,
         customerId, utm[1], utm[2], utm[3]) :
      phone \in PhoneArgs, message \in MessageArgs, source \in SourceArgs,
      customerId \in {Undefined, "c1"}, utm \in UtmArgs }

BareLead ==
  Lead("L1", "a@x.io", Undefined, Undefined, "WEBSITE", "NEW", 0, Undefined,
       Undefined, Undefined, Undefined, Undefined)

RichLead ==
  Lead("L1", "a@x.io", "+1-876-5550100", Msg25, "WISHLIST", "NEW", 0, "w1",
       "c1", "google", "cpc", "sale")

ItemSeqs(n) == UNION {[1..k -> ProductRefs] : k \in 0..n}

WishlistArgs ==
  {UndefinedObject} \cup
  {Wishlist("w1", Undefined, Undefined, s) : s \in ItemSeqs(MaxItems)}

FewWishlistArgs ==
  { UndefinedObject,
    Wishlist("w1", Undefined, Undefined, <<>>),
    Wishlist("w1", Undefined, Undefined, <<"p2", "p2", "p2">>),
    Wishlist("w1", Undefined, Undefined, <<"p1", "p1", "p1", "p1">>) }

CustomerIdArgs == {Undefined, "c2"}

ScoreArgs == (0 - CategoryMargin)..(100 + CategoryMargin)

-----------------------------------------------------------------------------
(* Evaluation of the scoring functions on a fixed repository *)

NoCall == [op |-> "none"]

Terms(lead, wishlist, customerId) ==
  [items |-> ItemCountTerm(wishlist), value |-> ValueTerm(wishlist),
   phone |-> PhoneTerm(lead), message |-> MessageTerm(lead),
   source |-> SourceTerm(lead), utm |-> UtmTerm(lead),
   account |-> AccountTerm(lead, customerId),
   repeat |-> RepeatTerm(lead, customerId),
   conversion |-> ConversionTerm(lead, customerId)]

Evaluate_storesScore(lead, wishlist, customerId) ==
  /\ call = NoCall
  /\ call' = [op |-> "calculateLeadScore", lead |-> lead,
              wishlist |-> wishlist, customerId |-> customerId,
              terms |-> Terms(lead, wishlist, customerId),
              result |-> calculateLeadScore(lead, wishlist, customerId),
              breakdown |-> getScoreBreakdown(lead, wishlist)]
  /\ leads' = {IF l.id = lead.id
               THEN [l EXCEPT !.score = calculateLeadScore(lead, wishlist, customerId)]
               ELSE l : l \in leads}
  /\ UNCHANGED <<products, wishlists, leadNotes, customers,
                 pendingRegistrations, nextId, inFlight, adminUsers, catalog,
                 response>>

Evaluate(lead, wishlist, customerId) ==
  /\ call = NoCall
  /\ call' = [op |-> "calculateLeadScore", lead |-> lead,
              wishlist |-> wishlist, customerId |-> customerId,
              terms |-> Terms(lead, wishlist, customerId),
              result |-> calculateLeadScore(lead, wishlist, customerId),
              breakdown |-> getScoreBreakdown(lead, wishlist)]
  /\ UNCHANGED store

\* every lead against a few wishlists
ScoreLead ==
  \E lead \in LeadArgs, wishlist \in FewWishlistArgs,
     customerId \in CustomerIdArgs :
    Evaluate(lead, wishlist, customerId)

\* every wishlist against a few leads
ScoreWishlist ==
  \E lead \in {BareLead, RichLead}, wishlist \in WishlistArgs :
    Evaluate(lead, wishlist, Undefined)

\* GET /api/admin/leads/:id: a stored lead is passed to the scoring functions
ScoreStored ==
  \E lead \in leads, customerId \in CustomerIdArgs :
    Evaluate(lead,
             IF Truthy(lead.wishlistId)
             THEN dbGetById(wishlists, lead.wishlistId) ELSE UndefinedObject,
             customerId)

Categorize ==
  \E score \in ScoreArgs :
    /\ call = NoCall
    /\ call' = [op |-> "getLeadCategory", score |-> score,
                result |-> getLeadCategory(score)]
    /\ UNCHANGED store

InitScore ==
  /\ products \in ProductRepos
  /\ leads \in LeadRepos
  /\ wishlists = {}
  /\ leadNotes = {}
  /\ customers = [present |-> TRUE, items |-> {}]
  /\ pendingRegistrations = {}
  /\ nextId = FirstIds
  /\ call = NoCall
  /\ inFlight = {}
  /\ adminUsers = {DefaultAdmin}
  /\ catalog = EmptyCatalog
  /\ response = NoResponse

NextScore == ScoreLead \/ ScoreWishlist \/ ScoreStored \/ Categorize

SpecScore == InitScore /\ [][NextScore]_vars

Scored == call.op = "calculateLeadScore"

-----------------------------------------------------------------------------
(* The scoring rules as the specification states them *)

RuleTotal(wishlist) ==
  IF wishlist = UndefinedObject THEN 0
  ELSE SumSeq([i \in 1..Len(wishlist.items) |->
         LET hits == {p \in products : p.id = wishlist.items[i].productId}
         IN IF hits = {} THEN 0 ELSE (CHOOSE p \in hits : TRUE).price])

RuleItemCount(wishlist) ==
  IF wishlist = UndefinedObject THEN 0 ELSE Len(wishlist.items)

RuleItems(wishlist) ==
  IF RuleItemCount(wishlist) >= 1
  THEN Min(RuleItemCount(wishlist) * 10, 40) ELSE 0

RuleTier(total) ==
  CASE total >= 10000 -> 30
    [] total \in 5000..9999 -> 25
    [] total \in 2000..4999 -> 20
    [] total \in 1000..1999 -> 15
    [] total \in 500..999 -> 10
    [] total \in 1..499 -> 5
    [] OTHER -> 0

RuleValue(wishlist) ==
  IF RuleItemCount(wishlist) >= 1 THEN RuleTier(RuleTotal(wishlist)) ELSE 0

NonEmptyString(s) == s # Undefined /\ Len(s) > 0

RulePhone(lead) == IF NonEmptyString(lead.phone) THEN 10 ELSE 0

RuleMessage(lead) ==
  IF lead.message # Undefined /\ Len(lead.message) > 20 THEN 10 ELSE 0

RuleSource(lead) == IF lead.source = "WISHLIST" THEN 5 ELSE 0

RuleUtm(lead) ==
  IF NonEmptyString(lead.utmSource) \/ NonEmptyString(lead.utmCampaign)
  THEN 5 ELSE 0

RuleResolved(lead, customerId) ==
  IF NonEmptyString(customerId) THEN customerId ELSE lead.customerId

RuleSiblings(lead, customerId) ==
  {l \in leads :
     /\ l.id # lead.id
     /\ \/ /\ NonEmptyString(RuleResolved(lead, customerId))
           /\ l.customerId = RuleResolved(lead, customerId)
        \/ l.email = lead.email}

RuleAccount(lead, customerId) ==
  IF NonEmptyString(RuleResolved(lead, customerId)) THEN 8 ELSE 0

RuleRepeat(lead, customerId) ==
  Min(Cardinality(RuleSiblings(lead, customerId)) * 3, 7)

RuleConversion(lead, customerId) ==
  IF \E l \in RuleSiblings(lead, customerId) : l.status = "CONVERTED"
  THEN 10 ELSE 0

RuleSum(lead, wishlist, customerId) ==
  RuleItems(wishlist) + RuleValue(wishlist) + RulePhone(lead)
  + RuleMessage(lead) + RuleSource(lead) + RuleUtm(lead)
  + RuleAccount(lead, customerId) + RuleRepeat(lead, customerId)
  + RuleConversion(lead, customerId)

TermSum(t) ==
  t.items + t.value + t.phone + t.message + t.source + t.utm
  + t.account + t.repeat + t.conversion

-----------------------------------------------------------------------------
(* Claims about calculateLeadScore, getScoreBreakdown and getLeadCategory *)

\* C1: for every lead, wishlist, customerId override and repository state,
\* calculateLeadScore returns an integer s with 0 <= s <= 100.
C1_ScoreInRange == Scored => call.result \in 0..100

\* the terms add up to more than 100 and the result is the ceiling
C1_Witness == Scored /\ TermSum(call.terms) > 100 /\ call.result = 100

\* the spec's scenario 2: phone, 25-character message, source WISHLIST,
\* three items totalling 1200, no campaign, no account, no siblings
C2_Scenario70 ==
  /\ Scored
  /\ NonEmptyString(call.lead.phone)
  /\ call.lead.message = Msg25
  /\ call.lead.source = "WISHLIST"
  /\ RuleItemCount(call.wishlist) = 3
  /\ RuleTotal(call.wishlist) = 1200
  /\ RuleUtm(call.lead) = 0
  /\ RuleAccount(call.lead, call.customerId) = 0
  /\ RuleSiblings(call.lead, call.customerId) = {}

\* the spec's scenario 1: no trigger at all and no siblings
C2_ScenarioZero ==
  /\ Scored
  /\ ~NonEmptyString(call.lead.phone)
  /\ call.lead.message = Undefined
  /\ call.lead.source # "WISHLIST"
  /\ RuleItemCount(call.wishlist) = 0
  /\ RuleUtm(call.lead) = 0
  /\ RuleAccount(call.lead, call.customerId) = 0
  /\ RuleSiblings(call.lead, call.customerId) = {}

\* C2: calculateLeadScore is min(100, items + value + phone + message +
\* source + utm + account + repeat + conversion), every term by its own
\* rule: phone 10 iff non-empty, message 10 iff longer than 20 characters,
\* source 5 iff 'WISHLIST', utm 5 iff utmSource or utmCampaign is non-empty;
\* scenario 2 scores 70 and scenario 1 scores 0.
C2_AdditiveScore ==
  /\ Scored =>
       /\ call.result =
            Min(100, RuleSum(call.lead, call.wishlist, call.customerId))
       /\ call.terms.phone = RulePhone(call.lead)
       /\ call.terms.message = RuleMessage(call.lead)
       /\ call.terms.source = RuleSource(call.lead)
       /\ call.terms.utm = RuleUtm(call.lead)
  /\ C2_Scenario70 => call.result = 70
  /\ C2_ScenarioZero => call.result = 0

\* scenario 2 is evaluated, and so is a message of exactly 20 characters
C2_Witness == C2_Scenario70 /\ call.result = 70

C2_WitnessBoundary ==
  Scored /\ call.lead.message = Msg20 /\ call.terms.message = 0

\* C3 as stated: without a customerId override the entries of
\* getScoreBreakdown sum to the result of calculateLeadScore.
C3_BreakdownSumsToScore ==
  (Scored /\ call.customerId = Undefined) =>
    BreakdownSum(call.breakdown) = call.result

\* C3 amended: without a customerId override the entries of
\* getScoreBreakdown, summed and capped at 100, equal the result of
\* calculateLeadScore; the plain sum equals it whenever the sum is at most
\* 100.
C3_CappedBreakdownSum ==
  (Scored /\ call.customerId = Undefined) =>
    /\ Min(BreakdownSum(call.breakdown), 100) = call.result
    /\ BreakdownSum(call.breakdown) = TermSum(call.terms)

C3_Witness ==
  /\ Scored
  /\ call.customerId = Undefined
  /\ BreakdownSum(call.breakdown) > 100
  /\ call.result = 100

ValueLabels ==
  {"High Value Wishlist", "Medium Value Wishlist", "Low Value Wishlist"}

ValueLabel(v) ==
  IF v >= 25 THEN "High Value Wishlist"
  ELSE IF v >= 15 THEN "Medium Value Wishlist"
  ELSE "Low Value Wishlist"

\* the label under which the breakdown reports each term of the scorer
TermLabel(t) ==
  [items |-> "Wishlist Items", value |-> ValueLabel(t.value),
   phone |-> "Phone Provided", message |-> "Detailed Message",
   source |-> "Wishlist Submission", utm |-> "Tracked Campaign",
   account |-> "Customer Account", repeat |-> "Repeat Customer",
   conversion |-> "Previous Conversion"]

AllLabels ==
  ValueLabels \cup
  {"Wishlist Items", "Phone Provided", "Detailed Message",
   "Wishlist Submission", "Tracked Campaign", "Customer Account",
   "Repeat Customer", "Previous Conversion"}

Triggered(t) == {k \in DOMAIN t : t[k] > 0}

\* C4: for the same lead, wishlist and repository and no override, each of
\* the nine terms appears in the breakdown with value v exactly when the
\* scorer adds v for it, and no two triggered terms share a label.
C4_SameTermsAsScorer ==
  (Scored /\ call.customerId = Undefined) =>
    LET t == call.terms
        b == call.breakdown
    IN /\ DOMAIN b = {TermLabel(t)[k] : k \in Triggered(t)}
       /\ \A k \in Triggered(t) : b[TermLabel(t)[k]] = t[k]
       /\ Cardinality(DOMAIN b) = Cardinality(Triggered(t))
       /\ DOMAIN b \subseteq AllLabels

\* all nine terms are triggered at once
C4_Witness ==
  /\ Scored
  /\ call.customerId = Undefined
  /\ Cardinality(Triggered(call.terms)) = 9
  /\ Cardinality(DOMAIN call.breakdown) = 9

Categorized == call.op = "getLeadCategory"

\* C8: getLeadCategory maps 0..30 to Cold, 31..60 to Warm and 61..100 to
\* Hot, and does not fail out of range: below 0 is Cold, above 100 is Hot.
C8_ThreeBands ==
  Categorized =>
    /\ call.result \in {"Cold Lead", "Warm Lead", "Hot Lead"}
    /\ call.result = "Cold Lead" <=> call.score <= 30
    /\ call.result = "Warm Lead" <=> call.score \in 31..60
    /\ call.result = "Hot Lead" <=> call.score >= 61

C8_Witness == Categorized /\ call.score = 61 /\ call.result = "Hot Lead"

C8_WitnessOutOfRange ==
  Categorized /\ call.score > 100 /\ call.result = "Hot Lead"

WithItem(wishlist, productId) ==
  [wishlist EXCEPT !.items = Append(@, WishlistItem(productId))]

\* C9: the item-count term is min(itemCount * 10, 40) for a wishlist with at
\* least one item and 0 for an absent or empty one; adding an item never
\* decreases it, strictly increases it below 4 items and leaves it at 40
\* from 4 items on, so 5 items give 40.
C9_ItemCountTerm ==
  Scored =>
    LET n == RuleItemCount(call.wishlist) IN
    /\ call.terms.items = (IF n >= 1 THEN Min(n * 10, 40) ELSE 0)
    /\ n = 5 => call.terms.items = 40
    /\ call.wishlist # UndefinedObject =>
         \A productId \in ProductRefs :
           LET more == ItemCountTerm(WithItem(call.wishlist, productId)) IN
           /\ more >= call.terms.items
           /\ n < 4 => more > call.terms.items
           /\ n >= 4 => more = 40 /\ call.terms.items = 40

C9_Witness ==
  Scored /\ RuleItemCount(call.wishlist) = 5 /\ call.terms.items = 40

\* C10: the value term is a step function of the sum of the prices of the
\* products resolved by id, an unresolved product counting 0: >= 10000
\* gives 30, >= 5000 gives 25, >= 2000 gives 20, >= 1000 gives 15, >= 500
\* gives 10, > 0 gives 5, otherwise 0; totals above 10000 still give 30.
C10_ValueStepFunction ==
  Scored =>
    /\ call.terms.value = RuleValue(call.wishlist)
    /\ call.terms.value \in {0, 5, 10, 15, 20, 25, 30}
    /\ RuleTotal(call.wishlist) >= 10000 => call.terms.value = 30

\* a wishlist far above 10000 with one item that resolves to no product
C10_Witness ==
  /\ Scored
  /\ call.wishlist # UndefinedObject
  /\ \E i \in 1..Len(call.wishlist.items) :
       \A p \in products : p.id # call.wishlist.items[i].productId
  /\ RuleTotal(call.wishlist) > 10000
  /\ call.terms.value = 30

\* C11: the repeat-contact bonus is min(siblingCount * 3, 7), siblingCount
\* being the number of stored leads with another id that have the resolved
\* customerId (when one is resolved) or exactly the same email; the scored
\* lead never counts itself, and two leads with the same email and no
\* customerId count each other.  The breakdown reports the same bonus for
\* the lead's own customerId.
C11_RepeatBonus ==
  Scored =>
    LET lead == call.lead
        resolved == resolvedCustomerId(lead, call.customerId)
        b == call.breakdown
        own == Cardinality(RuleSiblings(lead, Undefined))
    IN /\ call.terms.repeat =
            Min(Cardinality(RuleSiblings(lead, call.customerId)) * 3, 7)
       /\ \A l \in leads : l.id = lead.id => l \notin siblingLeads(lead, resolved)
       /\ \A l \in leads :
            (/\ l.id # lead.id
             /\ l.email = lead.email
             /\ l.customerId = Undefined
             /\ lead.customerId = Undefined
             /\ call.customerId = Undefined)
            => /\ l \in siblingLeads(lead, resolved)
               /\ IsSibling(lead, l, resolvedCustomerId(l, Undefined))
       /\ "Repeat Customer" \in DOMAIN b <=> own > 0
       /\ own > 0 => b["Repeat Customer"] = Min(own * 3, 7)

\* the scored lead is itself stored, has three siblings and gets the cap
C11_Witness ==
  /\ Scored
  /\ \E l \in leads : l.id = call.lead.id
  /\ Cardinality(RuleSiblings(call.lead, call.customerId)) = 3
  /\ call.terms.repeat = 7

ConvertedSiblings(lead, customerId) ==
  {l \in RuleSiblings(lead, customerId) : l.status = "CONVERTED"}

\* the spec's scenario 3: the customerId has exactly two other leads, one of
\* them converted, and no other lead shares the email
C12_Scenario24 ==
  /\ Scored
  /\ NonEmptyString(RuleResolved(call.lead, call.customerId))
  /\ Cardinality(RuleSiblings(call.lead, call.customerId)) = 2
  /\ \A l \in RuleSiblings(call.lead, call.customerId) :
       l.customerId = RuleResolved(call.lead, call.customerId)
  /\ Cardinality(ConvertedSiblings(call.lead, call.customerId)) = 1

\* C12: the historical-conversion bonus is exactly 10 when at least one
\* sibling (other id, resolved customerId or equal email) is CONVERTED and 0
\* otherwise, whatever the number of converted siblings and whatever the
\* scored lead's own status; in scenario 3 the account, repeat and
\* conversion terms add up to 8 + 6 + 10 = 24.
C12_ConversionBonus ==
  /\ Scored =>
       /\ call.terms.conversion =
            (IF ConvertedSiblings(call.lead, call.customerId) # {} THEN 10 ELSE 0)
       /\ (call.lead.status = "CONVERTED"
           /\ ConvertedSiblings(call.lead, call.customerId) = {})
          => call.terms.conversion = 0
  /\ C12_Scenario24 =>
       /\ call.terms.account = 8
       /\ call.terms.repeat = 6
       /\ call.terms.conversion = 10

C12_Witness ==
  C12_Scenario24
  /\ call.terms.account + call.terms.repeat + call.terms.conversion = 24

\* two converted siblings still give 10
C12_WitnessTwoConverted ==
  /\ Scored
  /\ Cardinality(ConvertedSiblings(call.lead, call.customerId)) = 2
  /\ call.terms.conversion = 10

\* a converted lead without converted siblings gets nothing for itself
C12_WitnessOwnStatus ==
  /\ Scored
  /\ call.lead.status = "CONVERTED"
  /\ call.lead \in leads
  /\ call.terms.conversion = 0

\* the customerId argument when it is given, lead.customerId otherwise
GivenOrOwn(lead, customerId) ==
  IF customerId # Undefined THEN customerId ELSE lead.customerId

\* C13: calculateLeadScore uses the customerId argument when it is given and
\* lead.customerId otherwise; the account term is 8 exactly when that id is
\* present, and the same id is matched against the siblings' customerId.
\* getScoreBreakdown consults lead.customerId only.
C13_ResolvedCustomerId ==
  Scored =>
    LET lead == call.lead
        chosen == GivenOrOwn(lead, call.customerId)
        matched == {l \in leads :
                      /\ l.id # lead.id
                      /\ \/ chosen # Undefined /\ l.customerId = chosen
                         \/ l.email = lead.email}
        own == {l \in leads :
                  /\ l.id # lead.id
                  /\ \/ lead.customerId # Undefined
                        /\ l.customerId = lead.customerId
                     \/ l.email = lead.email}
        b == call.breakdown
    IN /\ resolvedCustomerId(lead, call.customerId) = chosen
       /\ call.terms.account = (IF chosen # Undefined THEN 8 ELSE 0)
       /\ siblingLeads(lead, resolvedCustomerId(lead, call.customerId)) = matched
       /\ call.terms.repeat = Min(Cardinality(matched) * 3, 7)
       /\ "Customer Account" \in DOMAIN b <=> lead.customerId # Undefined
       /\ "Repeat Customer" \in DOMAIN b <=> own # {}
       /\ own # {} => b["Repeat Customer"] = Min(Cardinality(own) * 3, 7)

\* the argument differs from the lead's own customerId, and the scorer and
\* the breakdown count different siblings
C13_Witness ==
  /\ Scored
  /\ call.customerId = "c2"
  /\ call.lead.customerId = "c1"
  /\ call.terms.account = 8
  /\ call.terms.repeat = 6
  /\ "Repeat Customer" \in DOMAIN call.breakdown
  /\ call.breakdown["Repeat Customer"] = 7

\* C14: evaluating calculateLeadScore and getScoreBreakdown leaves every
\* collection as it was, the stored lead and wishlist passed in included.
C14_ScoringOnlyReads ==
  [][(call' # call /\ call'.op = "calculateLeadScore") => store' = store]_vars

\* a stored lead was passed in and is stored unchanged
C14_Witness ==
  /\ Scored
  /\ call.lead \in leads
  /\ call.lead.status = "CONVERTED"
  /\ call.result > 0

RuleTerms(lead, wishlist, customerId) ==
  [items |-> RuleItems(wishlist), value |-> RuleValue(wishlist),
   phone |-> RulePhone(lead), message |-> RuleMessage(lead),
   source |-> RuleSource(lead), utm |-> RuleUtm(lead),
   account |-> RuleAccount(lead, customerId),
   repeat |-> RuleRepeat(lead, customerId),
   conversion |-> RuleConversion(lead, customerId)]

\* C16: getScoreBreakdown has an entry only for a triggered term: every
\* value is a positive integer, an untriggered term has no key, and a lead
\* with no trigger and no sibling gets the empty mapping.
C16_OnlyTriggeredEntries ==
  Scored =>
    LET b == call.breakdown
        t == RuleTerms(call.lead, call.wishlist, Undefined)
    IN /\ \A k \in DOMAIN b : b[k] \in Nat /\ b[k] > 0
       /\ \A k \in DOMAIN t :
            t[k] = 0 =>
              IF k = "value" THEN DOMAIN b \cap ValueLabels = {}
              ELSE TermLabel(t)[k] \notin DOMAIN b
       /\ (\A k \in DOMAIN t : t[k] = 0) => b = EmptyBreakdown

\* a wishlist whose items resolve to no price: the item-count entry is
\* there and no value entry is
C16_Witness ==
  /\ Scored
  /\ RuleItemCount(call.wishlist) > 0
  /\ RuleTotal(call.wishlist) = 0
  /\ "Wishlist Items" \in DOMAIN call.breakdown
  /\ DOMAIN call.breakdown \cap ValueLabels = {}

C16_WitnessEmpty ==
  Scored /\ call.breakdown = EmptyBreakdown /\ call.result = 0

-----------------------------------------------------------------------------
(* Requests *)

Emails == {"a@x.io", "b@x.io"}

AdminEmails == {"admin@jewelsandtime.com"}

NoToken == [role |-> Undefined, userId |-> Undefined]

AdminToken == [role |-> "SUPER_ADMIN", userId |-> "admin1"]

\* the tokens of generateCustomerToken, and what optionalAuth leaves otherwise
Tokens ==
  {NoToken, AdminToken} \cup
  {[role |-> "CUSTOMER", userId |-> c.id] : c \in customers.items}

\* req.user?.role === 'CUSTOMER' ? req.user.userId : undefined
CustomerIdOf(token) ==
  IF token.role = "CUSTOMER" THEN token.userId ELSE Undefined

\* bodies of POST /api/leads that pass createLeadSchema
LeadBodies ==
  { [phone |-> Undefined, message |-> Undefined, wishlistId |-> Undefined,
     source |-> Undefined, utmSource |-> Undefined, utmMedium |-> Undefined,
     utmCampaign |-> Undefined],
    [phone |-> "+1-876-5550100", message |-> Msg25, wishlistId |-> "W1",
     source |-> "WISHLIST", utmSource |-> "google", utmMedium |-> "",
     utmCampaign |-> Undefined] }

Msg10 == "1234567890"

\* bodies of POST /api/leads/contact that pass contactSchema
ContactBodies ==
  { [phone |-> "+1-876-5550100", productId |-> "P1", message |-> Msg10] }

\* bodies of PUT /api/admin/leads/:id; score is no key of updateLeadSchema
UpdateBodies ==
  { [status |-> "CONVERTED", assignedTo |-> "staff", contactedAt |-> "t",
     convertedAt |-> "t", score |-> 250],
    [status |-> "QUALIFIED"] }

updateLeadSchema == {"status", "assignedTo", "contactedAt", "convertedAt"}

updateLeadSchemaAccepts_anyStatus(body) == TRUE

\* status: z.nativeEnum(LeadStatus).optional()
updateLeadSchemaAccepts(body) ==
  "status" \in DOMAIN body => body.status \in LeadStatus

\* middleware/validation.ts: the handler sees the fields of the schema
validate(schema, body) == [k \in DOMAIN body \cap schema |-> body[k]]

StorePrices == {5000}

\* the product ids a client may put into a wishlist
StoreProductRefs == {Uuid("P", n) : n \in 1..MaxProducts}

WishlistEmails == {"", "a@x.io"}

StoreItemSeqs == UNION {[1..k -> StoreProductRefs] : k \in 1..MaxStoreItems}

-----------------------------------------------------------------------------
(* The store: one action per request handler *)

\* POST /api/admin/products
CreateProduct ==
  \E price \in StorePrices :
    /\ nextId.product <= MaxProducts
    /\ products' = dbCreate(products, Product(Uuid("P", nextId.product), price))
    /\ nextId' = [nextId EXCEPT !.product = @ + 1]
    /\ UNCHANGED <<wishlists, leads, leadNotes, customers,
                   pendingRegistrations, call,
                   inFlight, adminUsers, catalog, response>>

\* DELETE /api/admin/products/:id
DeleteProduct ==
  \E product \in products :
    /\ products' = dbDelete(products, product.id)
    /\ UNCHANGED <<wishlists, leads, leadNotes, customers,
                   pendingRegistrations, nextId, call,
                   inFlight, adminUsers, catalog, response>>

\* POST /api/wishlists
CreateWishlist ==
  \E email \in WishlistEmails, items \in StoreItemSeqs :
    /\ nextId.wishlist <= MaxWishlists
    /\ Len(items) > 0
    /\ wishlists' = dbCreate(wishlists,
         Wishlist(Uuid("W", nextId.wishlist), Or(email, Undefined), Undefined,
                  items))
    /\ nextId' = [nextId EXCEPT !.wishlist = @ + 1]
    /\ UNCHANGED <<products, leads, leadNotes, customers,
                   pendingRegistrations, call,
                   inFlight, adminUsers, catalog, response>>

\* POST /api/wishlists/:shareToken/items
AddWishlistItem ==
  \E wishlist \in wishlists, productId \in StoreProductRefs :
    /\ Truthy(productId)
    /\ \A i \in 1..Len(wishlist.items) : wishlist.items[i].productId # productId
    /\ Len(wishlist.items) < MaxStoreItems
    /\ wishlists' = dbUpdate(wishlists, wishlist.id,
         [items |-> Append(wishlist.items, WishlistItem(productId))])
    /\ UNCHANGED <<products, leads, leadNotes, customers,
                   pendingRegistrations, nextId, call,
                   inFlight, adminUsers, catalog, response>>

\* wishlist.items.splice(itemIndex, 1)
Splice(items, itemIndex) ==
  [i \in 1..(Len(items) - 1) |-> IF i < itemIndex THEN items[i] ELSE items[i + 1]]

\* DELETE /api/wishlists/:shareToken/items/:productId
RemoveWishlistItem ==
  \E wishlist \in wishlists, productId \in StoreProductRefs :
    LET found == {i \in 1..Len(wishlist.items) :
                    wishlist.items[i].productId = productId}
    IN /\ found # {}
       /\ LET itemIndex == CHOOSE i \in found : \A j \in found : i <= j
          IN wishlists' = dbUpdate(wishlists, wishlist.id,
               [items |-> Splice(wishlist.items, itemIndex)])
       /\ UNCHANGED <<products, leads, leadNotes, customers,
                      pendingRegistrations, nextId, call,
                   inFlight, adminUsers, catalog, response>>

NewLead_unscored(body, email, token) ==
  Lead(Uuid("L", nextId.lead), email, Or(body.phone, Undefined),
       Or(body.message, Undefined), Or(body.source, "WEBSITE"),
       "NEW", 0, Or(body.wishlistId, Undefined), CustomerIdOf(token),
       Or(body.utmSource, Undefined), Or(body.utmMedium, Undefined),
       Or(body.utmCampaign, Undefined))

\* POST /api/leads, lines 78-105: the lead object with its score
NewLead(body, email, token) ==
  LET wishlist == IF Truthy(body.wishlistId)
                  THEN dbGetById(wishlists, body.wishlistId)
                  ELSE UndefinedObject
      customerId == CustomerIdOf(token)
      lead == Lead(Uuid("L", nextId.lead), email, Or(body.phone, Undefined),
                   Or(body.message, Undefined), Or(body.source, "WEBSITE"),
                   "NEW", 0, Or(body.wishlistId, Undefined), customerId,
                   Or(body.utmSource, Undefined), Or(body.utmMedium, Undefined),
                   Or(body.utmCampaign, Undefined))
      score == calculateLeadScore(lead, wishlist, customerId)
  IN [lead EXCEPT !.score = score]

\* POST /api/leads: the lead is scored, then stored
CreateLead ==
  \E body \in LeadBodies, email \in Emails, token \in Tokens :
       /\ nextId.lead <= MaxLeads
       /\ leads' = dbCreate(leads, NewLead(body, email, token))
       /\ nextId' = [nextId EXCEPT !.lead = @ + 1]
       /\ UNCHANGED <<products, wishlists, leadNotes, customers,
                      pendingRegistrations, call,
                   inFlight, adminUsers, catalog, response>>

\* POST /api/leads/contact, lines 151-170: the lead object with its score
NewContactLead(body, email, token) ==
  LET customerId == CustomerIdOf(token)
      message == IF Truthy(body.productId)
                 THEN "Product inquiry: " \o body.productId \o "\n\n"
                      \o body.message
                 ELSE body.message
      lead == Lead(Uuid("L", nextId.lead), email, Or(body.phone, Undefined),
                   message, "CONTACT_FORM", "NEW", 0, Undefined, customerId,
                   Undefined, Undefined, Undefined)
      score == calculateLeadScore(lead, UndefinedObject, customerId)
  IN [lead EXCEPT !.score = score]

\* POST /api/leads/contact
CreateContactLead ==
  \E body \in ContactBodies, email \in Emails, token \in Tokens :
       /\ nextId.lead <= MaxLeads
       /\ leads' = dbCreate(leads, NewContactLead(body, email, token))
       /\ nextId' = [nextId EXCEPT !.lead = @ + 1]
       /\ UNCHANGED <<products, wishlists, leadNotes, customers,
                      pendingRegistrations, call,
                   inFlight, adminUsers, catalog, response>>

\* PUT /api/admin/leads/:id; validate(updateLeadSchema) answers 400 to a body
\* the schema does not accept, and the handler does not run
UpdateLead ==
  \E lead \in leads, body \in UpdateBodies :
    /\ updateLeadSchemaAccepts(body)
    /\ leads' = dbUpdate(leads, lead.id, validate(updateLeadSchema, body))
    /\ UNCHANGED <<products, wishlists, leadNotes, customers,
                   pendingRegistrations, nextId, call,
                   inFlight, adminUsers, catalog, response>>

\* POST /api/admin/leads/:id/notes
AddLeadNote ==
  \E lead \in leads :
    /\ nextId.note <= MaxNotes
    /\ leadNotes' = dbCreate(leadNotes,
         [id |-> Uuid("N", nextId.note), leadId |-> lead.id])
    /\ nextId' = [nextId EXCEPT !.note = @ + 1]
    /\ UNCHANGED <<products, wishlists, leads, customers,
                   pendingRegistrations, call,
                   inFlight, adminUsers, catalog, response>>

\* DELETE /api/admin/leads/:id
DeleteLead ==
  \E lead \in leads :
    /\ leadNotes' = {note \in leadNotes : note.leadId # lead.id}
    /\ leads' = dbDelete(leads, lead.id)
    /\ UNCHANGED <<products, wishlists, customers, pendingRegistrations,
                   nextId, call,
                   inFlight, adminUsers, catalog, response>>

\* DELETE /api/admin/wishlists/:id, with its cascade over the linked leads
DeleteWishlist ==
  \E wishlist \in wishlists :
    LET linkedLeads == {l \in leads : l.wishlistId = wishlist.id}
    IN /\ wishlists' = dbDelete(wishlists, wishlist.id)
       /\ leadNotes' = {note \in leadNotes :
                          \A l \in linkedLeads : note.leadId # l.id}
       /\ leads' = leads \ linkedLeads
       /\ UNCHANGED <<products, customers, pendingRegistrations, nextId, call,
                   inFlight, adminUsers, catalog, response>>

\* POST /api/customer/auth/register up to `await hashPassword(password)`
RegisterCheck ==
  \E email \in Emails \cup AdminEmails :
    /\ customers.present
    /\ \A c \in customers.items : c.email # email
    /\ email \notin AdminEmails
    /\ nextId.request <= MaxRegistrations
    /\ pendingRegistrations' = pendingRegistrations \cup
         {[id |-> Uuid("R", nextId.request), email |-> email]}
    /\ nextId' = [nextId EXCEPT !.request = @ + 1]
    /\ UNCHANGED <<products, wishlists, leads, leadNotes, customers, call,
                   inFlight, adminUsers, catalog, response>>

LinkWishlists_anyEmail(email, customerId) ==
  {IF ~Truthy(w.customerId)
   THEN Merge(w, [customerId |-> customerId]) ELSE w : w \in wishlists}

\* existingWishlists.forEach(w => db.update('wishlists', w.id, { customerId }))
LinkWishlists(email, customerId) ==
  {IF w.email = email /\ ~Truthy(w.customerId)
   THEN Merge(w, [customerId |-> customerId]) ELSE w : w \in wishlists}

LinkLeads_rescore(email, customerId) ==
  {IF l.email = email /\ ~Truthy(l.customerId)
   THEN Merge(l, [customerId |-> customerId,
                  score |-> calculateLeadScore(
                    l, dbGetById(wishlists, l.wishlistId), customerId)])
   ELSE l : l \in leads}

\* existingLeads.forEach(l => db.update('leads', l.id, { customerId }))
LinkLeads(email, customerId) ==
  {IF l.email = email /\ ~Truthy(l.customerId)
   THEN Merge(l, [customerId |-> customerId]) ELSE l : l \in leads}

\* POST /api/customer/auth/register after the password is hashed
RegisterCommit ==
  \E request \in pendingRegistrations :
    LET customer == [id |-> Uuid("C", nextId.customer),
                     email |-> request.email]
    IN /\ customers' = [customers EXCEPT !.items = dbCreate(@, customer)]
       /\ wishlists' = LinkWishlists(request.email, customer.id)
       /\ leads' = LinkLeads(request.email, customer.id)
       /\ pendingRegistrations' = pendingRegistrations \ {request}
       /\ nextId' = [nextId EXCEPT !.customer = @ + 1]
       /\ UNCHANGED <<products, leadNotes, call,
                   inFlight, adminUsers, catalog, response>>

\* the database file: written by the initializer, which creates no
\* customers collection, or provided with an empty one
Init ==
  /\ products = {}
  /\ wishlists = {}
  /\ leads = {}
  /\ leadNotes = {}
  /\ customers \in {[present |-> FALSE, items |-> {}],
                    [present |-> TRUE, items |-> {}]}
  /\ pendingRegistrations = {}
  /\ nextId = FirstIds
  /\ call = NoCall
  /\ inFlight = {}
  /\ adminUsers = {DefaultAdmin}
  /\ catalog = EmptyCatalog
  /\ response = NoResponse

Next ==
  \/ CreateProduct
  \/ DeleteProduct
  \/ CreateWishlist
  \/ AddWishlistItem
  \/ RemoveWishlistItem
  \/ CreateLead
  \/ CreateContactLead
  \/ UpdateLead
  \/ AddLeadNote
  \/ DeleteLead
  \/ DeleteWishlist
  \/ RegisterCheck
  \/ RegisterCommit

Spec == Init /\ [][Next]_vars

-----------------------------------------------------------------------------
(* Claims about the stored score *)

\* what scoring the stored lead again, against the store as it is now, gives
Rescored(lead) ==
  calculateLeadScore(lead, dbGetById(wishlists, lead.wishlistId), Undefined)

C17_OneScoredLeadPerSubmission ==
  [][/\ (CreateLead \/ CreateContactLead) =>
          Cardinality(leads') = Cardinality(leads) + 1
     /\ \A n \in leads' :
          (\A l \in leads : l.id # n.id) =>
            /\ leads' = leads \cup {n}
            /\ n.status = "NEW"
            /\ n.score =
                 calculateLeadScore(
                   n,
                   IF n.wishlistId # Undefined
                   THEN dbGetById(wishlists, n.wishlistId) ELSE UndefinedObject,
                   n.customerId)]_vars

\* a lead of a logged-in customer with a wishlist, submitted after another
\* lead with the same email, stored as a hot lead
C17_Witness ==
  \E l \in leads, m \in leads :
    /\ l.id # m.id
    /\ l.email = m.email
    /\ l.status = "NEW"
    /\ l.customerId # Undefined
    /\ l.wishlistId # Undefined
    /\ l.score >= 61

\* LeadStatus.QUALIFIED: the enum has no such member
LeadStatusMember(name) == IF name \in LeadStatus THEN name ELSE Undefined

CountStatus(status) == Cardinality({l \in leads : l.status = status})

\* GET /api/admin/leads/stats: the counts by status
leadStats ==
  [total |-> Cardinality(leads),
   new |-> CountStatus(LeadStatusMember("NEW")),
   contacted |-> CountStatus(LeadStatusMember("CONTACTED")),
   qualified |-> CountStatus(LeadStatusMember("QUALIFIED")),
   scheduled |-> CountStatus(LeadStatusMember("SCHEDULED")),
   converted |-> CountStatus(LeadStatusMember("CONVERTED")),
   lost |-> CountStatus(LeadStatusMember("LOST"))]

-----------------------------------------------------------------------------
(* Two lead submissions in flight.  A handler runs without interruption up *)
(* to its first await: readFileSync and writeFileSync are synchronous, so  *)
(* the lead is scored and stored in one step, and the request then waits   *)
(* for sendNotifications before it answers.                                *)

\* POST /api/leads up to `await sendNotifications(lead)`
SubmitLead_rescoresSiblings ==
  \E body \in LeadBodies, email \in Emails, token \in Tokens :
    LET lead == NewLead(body, email, token) IN
    /\ nextId.lead <= MaxRaceLeads
    /\ leads' = {IF IsSibling(l, lead, lead.customerId)
                 THEN [l EXCEPT !.score = Min(l.score + 3, 100)] ELSE l :
                 l \in leads} \cup {lead}
    /\ nextId' = [nextId EXCEPT !.lead = @ + 1]
    /\ inFlight' = inFlight \cup {[op |-> "POST /api/leads", leadId |-> lead.id]}
    /\ UNCHANGED <<products, wishlists, leadNotes, customers,
                   pendingRegistrations, call, adminUsers, catalog, response>>

SubmitLead ==
  \E body \in LeadBodies, email \in Emails, token \in Tokens :
    LET lead == NewLead(body, email, token) IN
    /\ nextId.lead <= MaxRaceLeads
    /\ leads' = dbCreate(leads, lead)
    /\ nextId' = [nextId EXCEPT !.lead = @ + 1]
    /\ inFlight' = inFlight \cup {[op |-> "POST /api/leads", leadId |-> lead.id]}
    /\ UNCHANGED <<products, wishlists, leadNotes, customers,
                   pendingRegistrations, call, adminUsers, catalog, response>>

\* POST /api/leads/contact up to `await sendNotifications(lead)`
SubmitContact ==
  \E body \in ContactBodies, email \in Emails, token \in Tokens :
    LET lead == NewContactLead(body, email, token) IN
    /\ nextId.lead <= MaxRaceLeads
    /\ leads' = dbCreate(leads, lead)
    /\ nextId' = [nextId EXCEPT !.lead = @ + 1]
    /\ inFlight' = inFlight \cup
         {[op |-> "POST /api/leads/contact", leadId |-> lead.id]}
    /\ UNCHANGED <<products, wishlists, leadNotes, customers,
                   pendingRegistrations, call, adminUsers, catalog, response>>

\* sendNotifications resolves and the request answers 201
NotificationsSent ==
  \E request \in inFlight :
    /\ inFlight' = inFlight \ {request}
    /\ UNCHANGED <<products, wishlists, leads, leadNotes, customers,
                   pendingRegistrations, nextId, call, adminUsers, catalog,
                   response>>

\* a store with a product, a wishlist, a registered customer and, possibly,
\* an earlier converted lead of the same person
InitRace ==
  /\ products = {Product("P1", 5000)}
  /\ wishlists = {Wishlist("W1", "a@x.io", Undefined, <<"P1", "P1">>)}
  /\ leads \in {{}, {StoredLead("L0", "a@x.io", Undefined, "CONVERTED")}}
  /\ leadNotes = {}
  /\ customers = [present |-> TRUE,
                  items |-> {[id |-> "C1", email |-> "a@x.io"]}]
  /\ pendingRegistrations = {}
  /\ nextId = FirstIds
  /\ call = NoCall
  /\ inFlight = {}
  /\ adminUsers = {DefaultAdmin}
  /\ catalog = EmptyCatalog
  /\ response = NoResponse

NextRace == SubmitLead \/ SubmitContact \/ NotificationsSent

SpecRace == InitRace /\ [][NextRace]_vars

SubmittedIds == {Uuid("L", n) : n \in 1..(nextId.lead - 1)}

SamePerson(l, m) ==
  \/ l.email = m.email
  \/ l.customerId # Undefined /\ l.customerId = m.customerId

\* C15: with two lead submissions in flight at the same time, no request
\* changes or removes a lead other than the one it creates, every submitted
\* lead is stored, and the stored score of each is at most the score it
\* would get if it were scored against the store that holds the other.
C15_RaceOnlyUnderCounts ==
  /\ [](\A id \in SubmittedIds : \E l \in leads : l.id = id)
  /\ [](\A l \in leads : l.id \in SubmittedIds => l.score <= Rescored(l))
  /\ [][/\ leads \subseteq leads'
        /\ Cardinality(leads') <= Cardinality(leads) + 1]_vars

\* both requests wait for their notifications; the leads are of the same
\* person, and the first was scored without the second
C15_Witness ==
  /\ Cardinality(inFlight) = 2
  /\ \E l \in leads, m \in leads :
       /\ l.id = Uuid("L", 1)
       /\ m.id = Uuid("L", 2)
       /\ SamePerson(l, m)
       /\ l.score < Rescored(l)
       /\ m.score = Rescored(m)

-----------------------------------------------------------------------------
(* Admin users: /api/admin/users behind authenticate and authorize *)

\* generateToken: the payload that authenticate puts into req.user
JwtPayload(user) ==
  [userId |-> user.id, email |-> user.email, role |-> user.role]

\* the tokens POST /api/admin/auth/login issues to the stored users
AdminTokens == {JwtPayload(u) : u \in adminUsers}

\* obj.k in JavaScript: undefined when the object has no such property
Field(obj, k) == IF k \in DOMAIN obj THEN obj[k] ELSE Undefined

\* roles.includes(req.user.role)
authorize(roles, user) == user.role \in roles

UserEmails == {"admin@jewelsandtime.com", "staff@x.io"}

\* bodies of POST /api/admin/users that pass adminUserSchema
UserBodies == {[email |-> e, role |-> r] : e \in UserEmails, r \in AdminRole}

UsersRoute == "/api/admin/users"

\* POST /api/admin/users up to `await hashPassword(data.password)`
CreateUserCheck ==
  \E token \in AdminTokens, data \in UserBodies :
    /\ nextId.user <= MaxUsers
    /\ IF ~authorize({"SUPER_ADMIN"}, token)
       THEN /\ response' = [op |-> "POST", route |-> UsersRoute, status |-> 403,
                            error |-> "Insufficient permissions"]
            /\ UNCHANGED <<inFlight, nextId>>
       ELSE IF \E u \in adminUsers : u.email = data.email
       THEN /\ response' = [op |-> "POST", route |-> UsersRoute, status |-> 400,
                            error |-> "Email already exists"]
            /\ UNCHANGED <<inFlight, nextId>>
       ELSE /\ inFlight' = inFlight \cup
                 {[op |-> "POST /api/admin/users", data |-> data,
                   request |-> nextId.user]}
            /\ nextId' = [nextId EXCEPT !.user = @ + 1]
            /\ UNCHANGED response
    /\ UNCHANGED <<products, wishlists, leads, leadNotes, customers,
                   pendingRegistrations, call, adminUsers, catalog>>

\* POST /api/admin/users after the password is hashed
CreateUserCommit ==
  \E request \in inFlight :
    /\ request.op = "POST /api/admin/users"
    /\ adminUsers' = dbCreate(adminUsers,
         AdminUser(Uuid("U", request.request), request.data.email,
                   request.data.role))
    /\ inFlight' = inFlight \ {request}
    /\ response' = [op |-> "POST", route |-> UsersRoute, status |-> 201]
    /\ UNCHANGED <<products, wishlists, leads, leadNotes, customers,
                   pendingRegistrations, nextId, call, catalog>>

\* the ids a client may name: those of the stored users and one of no user
UserIdParams == {u.id : u \in adminUsers} \cup {"U9"}

\* DELETE /api/admin/users/:id
DeleteUser ==
  \E token \in AdminTokens, id \in UserIdParams :
    LET currentUser == token
        answer(status, text) ==
          [op |-> "DELETE", route |-> UsersRoute, userId |-> token.userId,
           id |-> id, status |-> status, error |-> text]
    IN /\ IF ~authorize({"SUPER_ADMIN"}, token)
          THEN /\ response' = answer(403, "Insufficient permissions")
               /\ UNCHANGED adminUsers
          ELSE IF Field(currentUser, "id") = id
          THEN /\ response' = answer(400, "Cannot delete your own account")
               /\ UNCHANGED adminUsers
          ELSE IF \A u \in adminUsers : u.id # id
          THEN /\ response' = answer(404, "User not found")
               /\ UNCHANGED adminUsers
          ELSE /\ adminUsers' = dbDelete(adminUsers, id)
               /\ response' = answer(200, Undefined)
       /\ UNCHANGED <<products, wishlists, leads, leadNotes, customers,
                      pendingRegistrations, nextId, call, inFlight, catalog>>

NextUsers == CreateUserCheck \/ CreateUserCommit \/ DeleteUser

SpecUsers == Init /\ [][NextUsers]_vars

OwnAccountRequest ==
  /\ response.op = "DELETE"
  /\ response.route = UsersRoute
  /\ response.id = response.userId

\* C19: DELETE /api/admin/users/:id never deletes the account of the user
\* who makes the request: with :id the requester's own id the answer is 400
\* 'Cannot delete your own account' and the requester's record stays in
\* adminUsers.
C19_NeverDeletesOwnAccount ==
  OwnAccountRequest =>
    /\ response.status = 400
    /\ response.error = "Cannot delete your own account"
    /\ \E u \in adminUsers : u.id = response.userId

\* the requester named their own id, got 200 and is no longer stored
C19_Witness ==
  /\ OwnAccountRequest
  /\ response.status = 200
  /\ \A u \in adminUsers : u.id # response.userId

-----------------------------------------------------------------------------
(* src/services/seo.ts.  A text is the sequence of its characters. *)

ToLowerCase(text) ==
  [i \in 1..Len(text) |->
     CASE text[i] = "A" -> "a"
       [] text[i] = "B" -> "b"
       [] OTHER -> text[i]]

\* \s, \w and the class [\s_-] of the regular expressions
WhitespaceChars == {" "}

WordChars == {"a", "b", "A", "B", "1", "2", "_"}

SeparatorChars == WhitespaceChars \cup {"_", "-"}

RECURSIVE DropLeading(_, _)
DropLeading(text, chars) ==
  IF text # <<>> /\ Head(text) \in chars
  THEN DropLeading(Tail(text), chars) ELSE text

RECURSIVE DropTrailing(_, _)
DropTrailing(text, chars) ==
  IF text # <<>> /\ text[Len(text)] \in chars
  THEN DropTrailing(SubSeq(text, 1, Len(text) - 1), chars) ELSE text

\* .trim()
Trim(text) == DropTrailing(DropLeading(text, WhitespaceChars), WhitespaceChars)

\* .replace(/[^\w\s-]/g, '')
RemoveSpecial(text) ==
  SelectSeq(text, LAMBDA c : c \in WordChars \cup WhitespaceChars \cup {"-"})

\* .replace(/[\s_-]+/g, '-')
RECURSIVE Hyphenate(_)
Hyphenate(text) ==
  IF text = <<>> THEN <<>>
  ELSE IF Head(text) \in SeparatorChars
  THEN <<"-">> \o Hyphenate(DropLeading(Tail(text), SeparatorChars))
  ELSE <<Head(text)>> \o Hyphenate(Tail(text))

\* .replace(/^-+|-+$/g, '')
StripHyphens(text) == DropTrailing(DropLeading(text, {"-"}), {"-"})

generateSlug(text) ==
  StripHyphens(Hyphenate(RemoveSpecial(Trim(ToLowerCase(text)))))

\* `${counter}`
RECURSIVE Digits(_)
Digits(n) ==
  IF n < 10 THEN <<ToString(n)>>
  ELSE Digits(n \div 10) \o <<ToString(n % 10)>>

\* the while loop of ensureUniqueSlug
RECURSIVE UniqueFrom(_, _, _, _)
UniqueFrom(slug, existingSlugs, uniqueSlug, counter) ==
  IF uniqueSlug \in existingSlugs
  THEN UniqueFrom(slug, existingSlugs, slug \o <<"-">> \o Digits(counter),
                  counter + 1)
  ELSE uniqueSlug

ensureUniqueSlug(slug, existingSlugs) ==
  UniqueFrom(slug, existingSlugs, slug, 1)

-----------------------------------------------------------------------------
(* Brands, tags, categories and products: create and update with a slug *)

SlugNames == { <<"A">>, <<"!">>, <<" ", "A", "_", " ", "b", "!", "-", " ">> }

SlugTexts == { <<>>, <<"a">>, <<"a", "-", "1">> }

\* bodies that pass brandSchema, tagSchema, categorySchema, productSchema:
\* name: z.string().min(1), slug: z.string().optional()
SlugBodies ==
  {[name |-> n] : n \in SlugNames}
  \cup {[name |-> <<"A">>, slug |-> t] : t \in SlugTexts}

\* bodies that pass the partial schemas
SlugUpdates ==
  {[name |-> <<"A">>]} \cup {[slug |-> t] : t \in SlugTexts}

\* the keys of the four schemas that the handlers read
slugSchema == {"name", "slug"}

\* data.slug || generateSlug(data.name)
SlugOrGenerated(data) ==
  IF "slug" \in DOMAIN data /\ data.slug # <<>>
  THEN data.slug ELSE generateSlug(data.name)

\* router.post('/'): the slug is made unique among all records
CreateSlugged(collection) ==
  \E body \in SlugBodies :
    LET data == validate(slugSchema, body)
        existingSlugs == {x.slug : x \in catalog[collection]}
        uniqueSlug == ensureUniqueSlug(SlugOrGenerated(data), existingSlugs)
    IN /\ nextId.slugged <= MaxSlugged
       /\ catalog' = [catalog EXCEPT ![collection] =
            dbCreate(@, [id |-> Uuid("S", nextId.slugged), name |-> data.name,
                         slug |-> uniqueSlug])]
       /\ nextId' = [nextId EXCEPT !.slugged = @ + 1]
       /\ UNCHANGED <<products, wishlists, leads, leadNotes, customers,
                      pendingRegistrations, call, inFlight, adminUsers,
                      response>>

\* if (updates.slug && updates.slug !== existing.slug)
\*   updates.slug = ensureUniqueSlug(updates.slug, slugs of the other records)
UniqueUpdates(collection, existing, updates) ==
  IF "slug" \in DOMAIN updates /\ updates.slug # <<>>
     /\ updates.slug # existing.slug
  THEN [updates EXCEPT !.slug =
          ensureUniqueSlug(updates.slug,
            {x.slug : x \in {y \in catalog[collection] : y.id # existing.id}})]
  ELSE updates

\* router.put('/:id'); an id of no record is answered 404
UpdateSlugged(collection) ==
  \E existing \in catalog[collection], body \in SlugUpdates :
    /\ catalog' = [catalog EXCEPT ![collection] =
         dbUpdate(@, existing.id,
                  UniqueUpdates(collection, existing, validate(slugSchema, body)))]
    /\ UNCHANGED <<products, wishlists, leads, leadNotes, customers,
                   pendingRegistrations, nextId, call, inFlight, adminUsers,
                   response>>

CreateBrand == CreateSlugged("brands")

UpdateBrand == UpdateSlugged("brands")

CreateTag == CreateSlugged("tags")

UpdateTag == UpdateSlugged("tags")

CreateCategory == CreateSlugged("categories")

UpdateCategory == UpdateSlugged("categories")

CreateCatalogProduct == CreateSlugged("products")

UpdateCatalogProduct == UpdateSlugged("products")

NextCatalog ==
  \/ CreateBrand
  \/ UpdateBrand
  \/ CreateTag
  \/ UpdateTag
  \/ CreateCategory
  \/ UpdateCategory
  \/ CreateCatalogProduct
  \/ UpdateCatalogProduct

SpecCatalog == Init /\ [][NextCatalog]_vars

\* C20: after any sequence of admin create and update operations on
\* brands, tags, categories and products, no two records of a collection
\* have the same slug.
C20_SlugsUnique ==
  \A c \in SluggedCollections :
    \A x \in catalog[c], y \in catalog[c] : x.id # y.id => x.slug # y.slug

\* two records of one collection whose slug is the empty string, one of them
\* set by an update
C20_Witness ==
  \E c \in SluggedCollections :
    \E x \in catalog[c], y \in catalog[c] :
      x.id # y.id /\ x.slug = <<>> /\ y.slug = <<>>

\* what the handlers do keep: no two records share a non-empty slug
NonEmptySlugsUnique ==
  \A c \in SluggedCollections :
    \A x \in catalog[c], y \in catalog[c] :
      (x.id # y.id /\ x.slug # <<>>) => x.slug # y.slug

-----------------------------------------------------------------------------
(* Deleting a brand, a category or a tag that products refer to.  Here the *)
(* records of the catalog carry their references and not their name and    *)
(* slug: a product has brandId, categoryId and tagIds, a subcategory has   *)
(* categoryId.  response holds the answer to the last request.             *)

ReferenceCollections == SluggedCollections \cup {"subcategories"}

\* a uuid that no record of the collection has
MissingId(collection) == Uuid(collection, 0)

IdsOf(collection) == {x.id : x \in catalog[collection]}

\* the brandId, categoryId and tagIds of productSchema are any uuids: the
\* handler does not look them up
BrandIdArgs == IdsOf("brands") \cup {MissingId("brands")}

CategoryIdArgs == IdsOf("categories") \cup {MissingId("categories")}

TagIdsArgs == {{}} \cup {{t} : t \in IdsOf("tags")} \cup {IdsOf("tags")}

Created(collection, record) ==
  /\ nextId.slugged <= MaxReferenced
  /\ catalog' = [catalog EXCEPT ![collection] = dbCreate(@, record)]
  /\ nextId' = [nextId EXCEPT !.slugged = @ + 1]
  /\ response' = [op |-> "POST", collection |-> collection, id |-> record.id,
                  status |-> 201]
  /\ UNCHANGED <<products, wishlists, leads, leadNotes, customers,
                 pendingRegistrations, call, inFlight, adminUsers>>

\* POST /api/admin/brands
AddBrand == Created("brands", [id |-> Uuid("brands", nextId.slugged)])

\* POST /api/admin/categories
AddCategory ==
  Created("categories", [id |-> Uuid("categories", nextId.slugged)])

\* POST /api/admin/tags
AddTag == Created("tags", [id |-> Uuid("tags", nextId.slugged)])

\* POST /api/admin/categories/:categoryId/subcategories, category found
AddSubcategory ==
  \E categoryId \in IdsOf("categories") :
    Created("subcategories",
            [id |-> Uuid("subcategories", nextId.slugged),
             categoryId |-> categoryId])

\* POST /api/admin/products
AddReferringProduct ==
  \E brandId \in BrandIdArgs, categoryId \in CategoryIdArgs,
     tagIds \in TagIdsArgs :
    Created("products",
            [id |-> Uuid("products", nextId.slugged), brandId |-> brandId,
             categoryId |-> categoryId, tagIds |-> tagIds])

\* the products the delete handlers look for before they delete
\*   brands, categories: db.getBy('products', 'brandId' | 'categoryId', id)
\*   tags: products.filter(p => p.tagIds?.includes(id))
ReferringProducts_brandOnly(collection, id) ==
  IF collection = "brands"
  THEN {p \in catalog.products : p.brandId = id}
  ELSE {}

ReferringProducts(collection, id) ==
  CASE collection = "brands" -> {p \in catalog.products : p.brandId = id}
    [] collection = "categories" ->
         {p \in catalog.products : p.categoryId = id}
    [] collection = "tags" -> {p \in catalog.products : id \in p.tagIds}

DeleteResponse(collection, id, status) ==
  [op |-> "DELETE", collection |-> collection, id |-> id, status |-> status]

\* router.delete('/:id') of brands, categories and tags: 400 when a product
\* refers to the record; the category handler then deletes the
\* subcategories of the category; 404 when db.delete finds no record
DeleteReferenced(collection) ==
  \E id \in IdsOf(collection) \cup {MissingId(collection)} :
    /\ IF ReferringProducts(collection, id) # {}
       THEN /\ response' = DeleteResponse(collection, id, 400)
            /\ UNCHANGED catalog
       ELSE LET cascaded ==
                  IF collection = "categories"
                  THEN [catalog EXCEPT !.subcategories =
                          {s \in @ : s.categoryId # id}]
                  ELSE catalog
                deleted == id \in IdsOf(collection)
            IN /\ catalog' = [cascaded EXCEPT ![collection] = dbDelete(@, id)]
               /\ response' =
                    DeleteResponse(collection, id,
                                   IF deleted THEN 200 ELSE 404)
    /\ UNCHANGED <<products, wishlists, leads, leadNotes, customers,
                   pendingRegistrations, nextId, call, inFlight, adminUsers>>

DeleteBrand == DeleteReferenced("brands")

DeleteCategory == DeleteReferenced("categories")

DeleteTag == DeleteReferenced("tags")

\* DELETE /api/admin/products/:id
DeleteReferringProduct ==
  \E id \in IdsOf("products") \cup {MissingId("products")} :
    /\ catalog' = [catalog EXCEPT !.products = dbDelete(@, id)]
    /\ response' = DeleteResponse("products", id,
                                  IF id \in IdsOf("products") THEN 200 ELSE 404)
    /\ UNCHANGED <<products, wishlists, leads, leadNotes, customers,
                   pendingRegistrations, nextId, call, inFlight, adminUsers>>

\* emptyDb: products, brands, categories, subcategories and tags are empty
InitReferences ==
  /\ products = {}
  /\ wishlists = {}
  /\ leads = {}
  /\ leadNotes = {}
  /\ customers = [present |-> FALSE, items |-> {}]
  /\ pendingRegistrations = {}
  /\ nextId = FirstIds
  /\ call = NoCall
  /\ inFlight = {}
  /\ adminUsers = {DefaultAdmin}
  /\ catalog = [c \in ReferenceCollections |-> {}]
  /\ response = NoResponse

NextReferences ==
  \/ AddBrand
  \/ AddCategory
  \/ AddTag
  \/ AddSubcategory
  \/ AddReferringProduct
  \/ DeleteBrand
  \/ DeleteCategory
  \/ DeleteTag
  \/ DeleteReferringProduct

SpecReferences == InitReferences /\ [][NextReferences]_vars

Refers(p, collection, id) ==
  \/ collection = "brands" /\ p.brandId = id
  \/ collection = "categories" /\ p.categoryId = id
  \/ collection = "tags" /\ id \in p.tagIds

ReferenceTargets == {"brands", "categories", "tags"}

\* C21: a delete of a brand, category or tag that at least one product
\* refers to is answered 400 and leaves every collection as it was (the
\* subcategories of the category included); after a delete answered 200 the
\* record is gone and no product refers to it by brandId, categoryId or
\* tagIds.
C21_ReferencedDeleteRejected ==
  /\ [][\A c \in ReferenceTargets :
          (response'.op = "DELETE" /\ response'.collection = c)
            => /\ (\E p \in catalog.products : Refers(p, c, response'.id))
                    => (response'.status = 400 /\ catalog' = catalog)
               /\ response'.status = 400 => catalog' = catalog]_vars
  /\ [](\A c \in ReferenceTargets :
          (response.op = "DELETE" /\ response.collection = c
           /\ response.status = 200)
            => /\ response.id \notin IdsOf(c)
               /\ \A p \in catalog.products : ~Refers(p, c, response.id))

\* a category with a subcategory and a referring product has just been
\* refused, and both are still stored
C21_Witness ==
  /\ response.op = "DELETE" /\ response.collection = "categories"
  /\ response.status = 400
  /\ response.id \in IdsOf("categories")
  /\ \E s \in catalog.subcategories : s.categoryId = response.id
  /\ \E p \in catalog.products : p.categoryId = response.id

\* a tag has just been deleted while products are stored
C21_WitnessDeleted ==
  /\ response.op = "DELETE" /\ response.collection = "tags"
  /\ response.status = 200
  /\ catalog.products # {}

-----------------------------------------------------------------------------
(* DELETE /api/admin/wishlists/:id with its answer *)

\* db.getBy('leads', 'wishlistId', id)
LinkedLeads_ofCustomers(id) ==
  {l \in leads : l.wishlistId = id /\ Truthy(l.customerId)}

LinkedLeads(id) == {l \in leads : l.wishlistId = id}

WishlistIdParams == {Uuid("W", n) : n \in 1..MaxWishlists} \cup {Uuid("W", 0)}

WishlistsRoute == "/api/admin/wishlists"

\* 404 when db.delete finds no wishlist; otherwise each linked lead is
\* deleted after its notes, and the answer counts the linked leads
DeleteWishlistById ==
  \E id \in WishlistIdParams :
    LET deleted == \E w \in wishlists : w.id = id
        linkedLeads == LinkedLeads(id)
    IN /\ IF ~deleted
          THEN /\ response' = [op |-> "DELETE", route |-> WishlistsRoute,
                               id |-> id, status |-> 404]
               /\ UNCHANGED <<wishlists, leads, leadNotes>>
          ELSE /\ wishlists' = dbDelete(wishlists, id)
               /\ leadNotes' = {note \in leadNotes :
                                  \A l \in linkedLeads : note.leadId # l.id}
               /\ leads' = {l \in leads :
                              \A linked \in linkedLeads : l.id # linked.id}
               /\ response' = [op |-> "DELETE", route |-> WishlistsRoute,
                               id |-> id, status |-> 200,
                               deletedLeads |-> Cardinality(linkedLeads)]
       /\ UNCHANGED <<products, customers, pendingRegistrations, nextId, call,
                      inFlight, adminUsers, catalog>>

NextCascade ==
  \/ CreateWishlist
  \/ CreateLead
  \/ CreateContactLead
  \/ AddLeadNote
  \/ DeleteWishlistById

SpecCascade == Init /\ [][NextCascade]_vars

\* a step that answers a DELETE /api/admin/wishlists/:id
WishlistDeleteAnswered ==
  /\ response' # response
  /\ response'.op = "DELETE"
  /\ response'.route = WishlistsRoute

\* C22: when DELETE /api/admin/wishlists/:id succeeds the wishlist is gone,
\* no stored lead has its id as wishlistId, no lead note refers to a lead the
\* cascade removed, deletedLeads is the number of leads removed, and every
\* other wishlist, lead and note is as before; for an id of no wishlist the
\* answer is 404 and nothing is deleted.
C22_WishlistCascade ==
  [][WishlistDeleteAnswered =>
       LET id == response'.id
           removed == leads \ leads'
       IN IF \E w \in wishlists : w.id = id
          THEN /\ response'.status = 200
               /\ wishlists' = {w \in wishlists : w.id # id}
               /\ \A l \in leads' : l.wishlistId # id
               /\ \A note \in leadNotes' :
                    \A l \in removed : note.leadId # l.id
               /\ response'.deletedLeads = Cardinality(removed)
               /\ leads' = {l \in leads : l.wishlistId # id}
               /\ leadNotes' \subseteq leadNotes
               /\ \A note \in leadNotes \ leadNotes' :
                    \E l \in removed : note.leadId = l.id
          ELSE /\ response'.status = 404
               /\ UNCHANGED <<wishlists, leads, leadNotes>>]_vars

\* a wishlist was deleted together with one linked lead and its note, and a
\* lead without wishlist is still stored
C22_Witness ==
  /\ response.op = "DELETE" /\ response.route = WishlistsRoute
  /\ response.status = 200 /\ response.deletedLeads = 1
  /\ wishlists = {} /\ leadNotes = {} /\ nextId.note > 1
  /\ \E l \in leads : l.wishlistId = Undefined

\* a lead names a wishlist that is not stored, and the delete is answered 404
C22_WitnessNotFound ==
  /\ response.op = "DELETE" /\ response.route = WishlistsRoute
  /\ response.status = 404
  /\ \E l \in leads : l.wishlistId = response.id

-----------------------------------------------------------------------------
(* Customer registration with its answers, two requests in flight.  The    *)
(* handler runs without interruption up to `await hashPassword(password)`  *)
(* and, once the hash is there, to its answer.                             *)

RegisterRoute == "/api/customer/auth/register"

RegisterAnswer(email, status) ==
  [op |-> "POST", route |-> RegisterRoute, email |-> email, status |-> status]

\* lines 42-58: 409 when a customer or an admin user has the email
Register ==
  \E email \in Emails \cup AdminEmails :
    /\ nextId.request <= MaxConcurrentRegistrations
    /\ nextId' = [nextId EXCEPT !.request = @ + 1]
    /\ IF \/ \E c \in customers.items : c.email = email
          \/ \E u \in adminUsers : u.email = email
       THEN /\ response' = RegisterAnswer(email, 409)
            /\ UNCHANGED pendingRegistrations
       ELSE /\ pendingRegistrations' = pendingRegistrations \cup
                 {[id |-> Uuid("R", nextId.request), email |-> email]}
            /\ UNCHANGED response
    /\ UNCHANGED <<products, wishlists, leads, leadNotes, customers, call,
                   inFlight, adminUsers, catalog>>

\* lines 59-97: the customer is stored, the wishlists and leads of the
\* email are linked, and the answer is 201
RegisterHashed ==
  \E request \in pendingRegistrations :
    LET customer == [id |-> Uuid("C", nextId.customer),
                     email |-> request.email]
    IN /\ customers' = [customers EXCEPT !.items = dbCreate(@, customer)]
       /\ wishlists' = LinkWishlists(request.email, customer.id)
       /\ leads' = LinkLeads(request.email, customer.id)
       /\ pendingRegistrations' = pendingRegistrations \ {request}
       /\ nextId' = [nextId EXCEPT !.customer = @ + 1]
       /\ response' = Merge(RegisterAnswer(request.email, 201),
                            [customerId |-> customer.id])
       /\ UNCHANGED <<products, leadNotes, call, inFlight, adminUsers,
                      catalog>>

\* a database file with a customers collection
InitRegister ==
  /\ products = {}
  /\ wishlists = {}
  /\ leads = {}
  /\ leadNotes = {}
  /\ customers = [present |-> TRUE, items |-> {}]
  /\ pendingRegistrations = {}
  /\ nextId = FirstIds
  /\ call = NoCall
  /\ inFlight = {}
  /\ adminUsers = {DefaultAdmin}
  /\ catalog = EmptyCatalog
  /\ response = NoResponse

NextRegister ==
  \/ CreateWishlist
  \/ CreateLead
  \/ Register
  \/ RegisterHashed

SpecRegister == InitRegister /\ [][NextRegister]_vars

\* a step that answers a registration
RegisterAnswered ==
  /\ response' # response
  /\ response'.op = "POST"
  /\ response'.route = RegisterRoute

\* r with the customer id put in when r has the email and no customerId
LinkedTo(r, email, id) ==
  IF r.email = email /\ r.customerId = Undefined
  THEN [r EXCEPT !.customerId = id] ELSE r

EmailInUse(email) ==
  \/ \E c \in customers.items : c.email = email
  \/ \E u \in adminUsers : u.email = email

\* C23: a registration answered 201 for email e stores a new customer, and
\* every wishlist and lead with email e and no customerId then carries that
\* customer's id while every other record is as before; a registration whose
\* email a customer or an admin user has when the handler looks it up goes no
\* further, and its answer 409 changes nothing.
C23_RegistrationLinksGuestRecords ==
  /\ [][RegisterAnswered =>
          LET e == response'.email
          IN IF response'.status = 201
             THEN LET id == response'.customerId
                  IN /\ \A c \in customers.items : c.id # id
                     /\ customers'.items =
                          customers.items \cup {[id |-> id, email |-> e]}
                     /\ wishlists' = {LinkedTo(w, e, id) : w \in wishlists}
                     /\ leads' = {LinkedTo(l, e, id) : l \in leads}
                     /\ UNCHANGED <<products, leadNotes, adminUsers>>
             ELSE /\ response'.status = 409
                  /\ EmailInUse(e)
                  /\ UNCHANGED <<products, wishlists, leads, leadNotes,
                                 customers, adminUsers,
                                 pendingRegistrations>>]_vars
  /\ [][\A r \in pendingRegistrations' \ pendingRegistrations :
          ~EmailInUse(r.email)]_vars

\* a registration has just linked a wishlist and a lead of its email, and a
\* lead of another email is stored without customerId
C23_Witness ==
  /\ response.op = "POST" /\ response.route = RegisterRoute
  /\ response.status = 201
  /\ \E w \in wishlists :
       w.email = response.email /\ w.customerId = response.customerId
  /\ \E l \in leads :
       l.email = response.email /\ l.customerId = response.customerId
  /\ \E l \in leads : l.email # response.email /\ l.customerId = Undefined

\* a registration with the email of a customer was answered 409
C23_WitnessConflict ==
  /\ response.op = "POST" /\ response.route = RegisterRoute
  /\ response.status = 409
  /\ \E c \in customers.items : c.email = response.email

\* C27: no two stored customers have the same email, also when
\* registrations overlap.
C27_UniqueCustomerEmails ==
  \A c \in customers.items, d \in customers.items :
    c.id # d.id => c.email # d.email

\* two registrations of one email both passed the lookup before either was
\* stored, and both customers are stored
C27_Witness ==
  /\ pendingRegistrations = {}
  /\ response.op = "POST" /\ response.route = RegisterRoute
  /\ response.status = 201
  /\ \E c \in customers.items :
       c.id # response.customerId /\ c.email = response.email

\* what the lookup does keep: a registration that starts after a customer
\* of its email is stored is answered 409
C27_LookupSeesStoredCustomers ==
  [][\A r \in pendingRegistrations' \ pendingRegistrations :
       \A c \in customers.items : c.email # r.email]_vars

-----------------------------------------------------------------------------
(* GET /api/admin/leads/:id on the store *)

\* lead.wishlistId ? db.getById('wishlists', lead.wishlistId) : null
WishlistOf(lead) ==
  IF Truthy(lead.wishlistId)
  THEN dbGetById(wishlists, lead.wishlistId) ELSE UndefinedObject

\* the answer for a stored lead: the lead as stored and the breakdown
\* computed on the store as it is now
LeadDetail(lead) ==
  [lead |-> Merge(lead, [category |-> getLeadCategory(lead.score)]),
   wishlist |-> WishlistOf(lead),
   notes |-> {note \in leadNotes : note.leadId = lead.id},
   scoreBreakdown |-> getScoreBreakdown(lead, WishlistOf(lead))]

\* C24: in every reachable state of the store and for every stored lead,
\* the scoreBreakdown that GET /api/admin/leads/:id returns, summed and
\* capped at 100, equals the score of the lead in the same answer.
C24_BreakdownExplainsStoredScore ==
  \A l \in leads :
    Min(BreakdownSum(LeadDetail(l).scoreBreakdown), 100)
      = LeadDetail(l).lead.score

\* a lead whose stored score is above the capped sum of its breakdown: its
\* wishlist lost items after the lead was stored
C24_Witness ==
  \E l \in leads :
    /\ Truthy(l.wishlistId)
    /\ \E w \in wishlists : w.id = l.wishlistId
    /\ LeadDetail(l).lead.score
         > Min(BreakdownSum(LeadDetail(l).scoreBreakdown), 100)

\* what does hold: the answer carries the score as stored
C24_DetailCarriesStoredScore ==
  \A l \in leads :
    /\ LeadDetail(l).lead.score = l.score
    /\ LeadDetail(l).lead.category = getLeadCategory(l.score)

-----------------------------------------------------------------------------
(* The answer of a lead submission.  sendNotifications runs after           *)
(* db.create('leads', lead), inside the try block of the handler.  The two  *)
(* senders catch what sendMail and messages.create throw and return false, *)
(* but they call createTransporter() and createTwilioClient() before their  *)
(* try block, and sendNotifications reads the settings with db.getAll: what *)
(* those throw reaches the catch block of the handler.                      *)

SubmissionAnswer(request, status) ==
  [op |-> request.op, leadId |-> request.leadId, status |-> status]

\* sendNotifications resolves: each notification was sent, skipped (not
\* configured or disabled) or failed inside the sender's try block
NotificationsResolved ==
  \E request \in inFlight :
    /\ inFlight' = inFlight \ {request}
    /\ response' = SubmissionAnswer(request, 201)
    /\ UNCHANGED <<products, wishlists, leads, leadNotes, customers,
                   pendingRegistrations, nextId, call, adminUsers, catalog>>

\* sendNotifications rejects: catch (error) answers 500
NotificationsRejected ==
  \E request \in inFlight :
    /\ inFlight' = inFlight \ {request}
    /\ response' = SubmissionAnswer(request, 500)
    /\ UNCHANGED <<products, wishlists, leads, leadNotes, customers,
                   pendingRegistrations, nextId, call, adminUsers, catalog>>

NextNotify ==
  \/ SubmitLead
  \/ SubmitContact
  \/ NotificationsResolved
  \/ NotificationsRejected

SpecNotify == InitRace /\ [][NextNotify]_vars

SubmissionOps == {"POST /api/leads", "POST /api/leads/contact"}

\* C25: a lead submission answered 500 has added no lead, also when a
\* notification fails or throws; a submitted lead is in the store only if
\* its request is answered 201.
C25_NoLeadWithoutCreated ==
  (response.op \in SubmissionOps /\ response.status = 500)
    => \A l \in leads : l.id # response.leadId

\* the request was answered 500 and its lead is stored
C25_Witness ==
  /\ response.op \in SubmissionOps
  /\ response.status = 500
  /\ \E l \in leads : l.id = response.leadId

\* what does hold: a request answered 201 has stored its lead
C25_CreatedIsStored ==
  (response.op \in SubmissionOps /\ response.status = 201)
    => \E l \in leads : l.id = response.leadId

-----------------------------------------------------------------------------
(* Access to the admin routes.  Every admin router runs authenticate; the  *)
(* users router and two settings routes also run authorize.                *)

NoAuthorize == {"<none>"}

AdminHandler(method, route, roles) ==
  [method |-> method, route |-> route, roles |-> roles]

\* one handler for each combination of router and middleware
AdminHandlers ==
  { AdminHandler("GET", "/api/admin/leads", NoAuthorize),
    AdminHandler("POST", "/api/admin/products", NoAuthorize),
    AdminHandler("DELETE", "/api/admin/brands/:id", NoAuthorize),
    AdminHandler("DELETE", "/api/admin/categories/:id", NoAuthorize),
    AdminHandler("DELETE", "/api/admin/tags/:id", NoAuthorize),
    AdminHandler("DELETE", "/api/admin/wishlists/:id", NoAuthorize),
    AdminHandler("GET", "/api/admin/customers", NoAuthorize),
    AdminHandler("GET", "/api/admin/settings", NoAuthorize),
    AdminHandler("PUT", "/api/admin/settings/:key", {"ADMIN", "SUPER_ADMIN"}),
    AdminHandler("DELETE", "/api/admin/settings/:key", {"SUPER_ADMIN"}),
    AdminHandler("GET", "/api/admin/users", {"SUPER_ADMIN"}) }

\* the payload of the token a registered customer holds: verifyToken gives
\* it to authenticateCustomer, which asks for role CUSTOMER, and the
\* handlers read userId as the id of the customer
CustomerTokens ==
  {[userId |-> c.id, email |-> c.email, role |-> "CUSTOMER"] :
     c \in customers.items}

\* no Authorization header, or a token that verifyToken refuses
Unverified == {[header |-> "none"], [header |-> "invalid token"]}

\* authenticate: 401 without a token that verifyToken accepts; otherwise
\* req.user is the payload, whatever its role
authenticate(token) == IF token \in Unverified THEN 401 ELSE 200

\* the middleware of the handler, in order; 200 stands for next()
Admitted(handler, token) ==
  IF authenticate(token) # 200 THEN authenticate(token)
  ELSE IF handler.roles # NoAuthorize /\ ~authorize(handler.roles, token)
  THEN 403
  ELSE 200

\* a request to an admin route
AdminRequest ==
  \E handler \in AdminHandlers,
     token \in Unverified \cup AdminTokens \cup CustomerTokens :
    /\ response' = [op |-> "ADMIN", method |-> handler.method,
                    route |-> handler.route,
                    role |-> IF token \in Unverified
                             THEN Undefined ELSE token.role,
                    status |-> Admitted(handler, token)]
    /\ UNCHANGED <<products, wishlists, leads, leadNotes, customers,
                   pendingRegistrations, nextId, call, inFlight, adminUsers,
                   catalog>>

NextAccess ==
  \/ Register
  \/ RegisterHashed
  \/ CreateUserCheck
  \/ CreateUserCommit
  \/ AdminRequest

SpecAccess == InitRegister /\ [][NextAccess]_vars

\* C26: a request whose valid token has role CUSTOMER is never served by an
\* admin route: every request that reaches an admin handler carries a token
\* with role SUPER_ADMIN, ADMIN or STAFF.
C26_AdminRoutesRefuseCustomers ==
  (response.op = "ADMIN" /\ response.status = 200)
    => response.role \in AdminRole

\* the token of a registered customer was let through to the admin leads
C26_Witness ==
  /\ response.op = "ADMIN"
  /\ response.route = "/api/admin/leads"
  /\ response.role = "CUSTOMER"
  /\ response.status = 200
  /\ customers.items # {}

\* what does hold: no request is served without a verified token, and the
\* routes behind authorize serve only the roles they name
C26_AuthorizedRoutesRefuseCustomers ==
  (response.op = "ADMIN" /\ response.status = 200)
    => /\ response.role # Undefined
       /\ \A h \in AdminHandlers :
            (h.route = response.route /\ h.method = response.method
             /\ h.roles # NoAuthorize) => response.role \in h.roles

-----------------------------------------------------------------------------
(* Product images.  Here a product carries its images, a sequence of       *)
(* records with id, isPrimary and sortOrder.  The upload handler reads the *)
(* product, awaits optimizeImage for each file and then writes the images  *)
(* it read plus the new ones; between the read and the write it touches    *)
(* only its own copies, so the awaits are one wait.  The delete handler is *)
(* synchronous.  response holds the image ids stored at the start and the  *)
(* ids that the answers so far reported as uploaded and as deleted.        *)

ProductImage(id, isPrimary, sortOrder) ==
  [id |-> id, isPrimary |-> isPrimary, sortOrder |-> sortOrder]

\* the new images of lines 471-487, for a product read with `images`
NewImages(images, request, files) ==
  [k \in 1..files |->
     ProductImage(Uuid("I" \o ToString(request) \o "-", k),
                  Len(images) = 0 /\ k = 1,
                  Len(images) + k - 1)]

\* POST /api/admin/products/:id/images up to the first await
UploadImages ==
  \E product \in products, files \in 1..MaxFiles :
    /\ nextId.request <= MaxUploads
    /\ inFlight' = inFlight \cup
         {[op |-> "POST /api/admin/products/:id/images",
           request |-> nextId.request, id |-> product.id,
           product |-> product, files |-> files]}
    /\ nextId' = [nextId EXCEPT !.request = @ + 1]
    /\ UNCHANGED <<products, wishlists, leads, leadNotes, customers,
                   pendingRegistrations, call, adminUsers, catalog, response>>

\* lines 489-493: product.images.push(...newImages); db.update; 200
ImagesOptimized ==
  \E request \in inFlight :
    LET newImages == NewImages(request.product.images, request.request,
                               request.files)
    IN /\ products' = dbUpdate(products, request.id,
                               [images |-> request.product.images \o newImages])
       /\ inFlight' = inFlight \ {request}
       /\ response' = [response EXCEPT !.uploaded =
            @ \cup {newImages[k].id : k \in DOMAIN newImages}]
       /\ UNCHANGED <<wishlists, leads, leadNotes, customers,
                      pendingRegistrations, nextId, call, adminUsers, catalog>>

\* product.images.splice(imageIndex, 1)
Without(images, index) ==
  [k \in 1..(Len(images) - 1) |->
     IF k < index THEN images[k] ELSE images[k + 1]]

\* DELETE /api/admin/products/:id/images/:imageId, image found
DeleteImage ==
  \E product \in products :
    \E imageIndex \in DOMAIN product.images :
      /\ products' = dbUpdate(products, product.id,
                              [images |-> Without(product.images, imageIndex)])
      /\ response' = [response EXCEPT !.deleted =
                        @ \cup {product.images[imageIndex].id}]
      /\ UNCHANGED <<wishlists, leads, leadNotes, customers,
                     pendingRegistrations, nextId, call, inFlight, adminUsers,
                     catalog>>

StoredImageIds(product) ==
  {product.images[k].id : k \in DOMAIN product.images}

\* one product, without images or with the image of an earlier upload
InitImages ==
  /\ products \in
       {{[id |-> "P1", price |-> 5000, images |-> images]} :
          images \in {<<>>, <<ProductImage("I0", TRUE, 0)>>}}
  /\ wishlists = {}
  /\ leads = {}
  /\ leadNotes = {}
  /\ customers = [present |-> FALSE, items |-> {}]
  /\ pendingRegistrations = {}
  /\ nextId = FirstIds
  /\ call = NoCall
  /\ inFlight = {}
  /\ adminUsers = {DefaultAdmin}
  /\ catalog = EmptyCatalog
  /\ response = [op |-> "images",
                 stored |-> UNION {StoredImageIds(p) : p \in products},
                 uploaded |-> {}, deleted |-> {}]

NextImages == UploadImages \/ ImagesOptimized \/ DeleteImage

SpecImages == InitImages /\ [][NextImages]_vars

Primary(product) ==
  {k \in DOMAIN product.images : product.images[k].isPrimary}

\* C28: image operations on one product lose no update: once every upload
\* has completed, the images of the product are the images stored before,
\* plus every uploaded image, minus every deleted image, and at most one
\* image is primary.
C28_NoLostImageUpdate ==
  inFlight = {} =>
    \A p \in products :
      /\ StoredImageIds(p) =
           (response.stored \cup response.uploaded) \ response.deleted
      /\ Cardinality(Primary(p)) <= 1

\* two uploads have completed and the images of one of them are not stored
C28_Witness ==
  /\ inFlight = {}
  /\ nextId.request > MaxUploads
  /\ response.deleted = {}
  /\ \E p \in products :
       \E id \in response.uploaded : id \notin StoredImageIds(p)

\* an image deleted while an upload waited is stored again
C28_WitnessDeletedReturns ==
  /\ inFlight = {}
  /\ \E p \in products : StoredImageIds(p) \cap response.deleted # {}

\* what does hold: at most one stored image is primary
C28_AtMostOnePrimary ==
  \A p \in products : Cardinality(Primary(p)) <= 1

-----------------------------------------------------------------------------
(* The places that put a score into a band *)

getLeadScoreColor_from60(score) ==
  IF score >= 60 THEN "red"
  ELSE IF score >= 31 THEN "yellow"
  ELSE "blue"

getLeadScoreColor(score) ==
  IF score >= 61 THEN "red"
  ELSE IF score >= 31 THEN "yellow"
  ELSE "blue"

\* sendLeadNotification: scoreLabel, without the emoji it starts with
emailScoreLabel(score) ==
  IF score >= 61 THEN "HOT LEAD"
  ELSE IF score >= 31 THEN "WARM LEAD"
  ELSE "COLD LEAD"

\* sendWhatsAppNotification: scoreLabel
whatsappScoreLabel(score) ==
  IF score >= 61 THEN "HOT LEAD"
  ELSE IF score >= 31 THEN "WARM LEAD"
  ELSE "COLD LEAD"

\* GET /api/admin/leads/stats: the three filters on l.score
IsHot(score) == score >= 61

IsWarm(score) == score >= 31 /\ score < 61

IsCold(score) == score < 31

scoreStats ==
  [total |-> Cardinality(leads),
   hot |-> Cardinality({l \in leads : IsHot(l.score)}),
   warm |-> Cardinality({l \in leads : IsWarm(l.score)}),
   cold |-> Cardinality({l \in leads : IsCold(l.score)})]

\* getLeadCategory on any score, next to lead submissions that fill the store
NextBands == Categorize \/ SubmitLead \/ SubmitContact \/ NotificationsSent

SpecBands == InitRace /\ [][NextBands]_vars

BandNames == {"hot", "warm", "cold"}

BandOfCategory ==
  [hot |-> "Hot Lead", warm |-> "Warm Lead", cold |-> "Cold Lead"]

BandOfColor == [hot |-> "red", warm |-> "yellow", cold |-> "blue"]

BandOfLabel == [hot |-> "HOT LEAD", warm |-> "WARM LEAD", cold |-> "COLD LEAD"]

\* the counters of the statistics that count a lead with this score
CountedIn(score) ==
  {b \in BandNames :
     \/ b = "hot" /\ IsHot(score)
     \/ b = "warm" /\ IsWarm(score)
     \/ b = "cold" /\ IsCold(score)}

AgreesWithCategory(score, category) ==
  \E b \in BandNames :
    /\ category = BandOfCategory[b]
    /\ getLeadScoreColor(score) = BandOfColor[b]
    /\ emailScoreLabel(score) = BandOfLabel[b]
    /\ whatsappScoreLabel(score) = BandOfLabel[b]
    /\ CountedIn(score) = {b}

\* C29: for every integer score in 0..100 the colour of getLeadScoreColor,
\* the labels of the email and WhatsApp notifications and the hot, warm and
\* cold counters of the statistics name the band getLeadCategory gives, and
\* in the statistics hot + warm + cold = total.
C29_BandsAgree ==
  /\ (Categorized /\ call.score \in 0..100)
       => AgreesWithCategory(call.score, call.result)
  /\ \A l \in leads : AgreesWithCategory(l.score, getLeadCategory(l.score))
  /\ scoreStats.hot + scoreStats.warm + scoreStats.cold = scoreStats.total

\* getLeadCategory was called at the lower edge of the hot band, while the
\* store holds a hot lead and a lead of another band
C29_Witness ==
  /\ Categorized /\ call.score = 61
  /\ scoreStats.hot >= 1
  /\ scoreStats.warm + scoreStats.cold >= 1

\* getLeadCategory was called at the upper edge of the warm band
C29_WitnessWarmEdge ==
  /\ Categorized /\ call.score = 60 /\ call.result = "Warm Lead"
  /\ scoreStats.warm >= 1

====
